---- MODULE Spec2Model ----
(***************************************************************************)
(* A model of disgo's grouped entity cache (package cache,                 *)
(* src/cache/grouped_cache.go, and its older copy in package core,         *)
(* src/unnamed/part_002) and of the guild-ban-remove gateway handler       *)
(* (src/core/handlers/gateway_handler_guild_ban_remove.go).                *)
(*                                                                         *)
(* Go maps are reference values, so the two-level map of the cache is      *)
(* modelled with a heap: the field c.cache maps a group id to the address  *)
(* of the group's bucket, and heap maps an address to the bucket's         *)
(* content.  A map handed to a caller is either a copy (a value) or an     *)
(* address.                                                                *)
(***************************************************************************)
EXTENDS Integers, Sequences, FiniteSets, TLC

----------------------------------------------------------------------------
(* Bounds of the model. *)

\* number of group ids (snowflake.ID) the callers use
NumGroups == 2
\* number of entity ids (snowflake.ID) the callers use
NumIDs == 2
\* number of entity values other than the zero value of T
NumEntities == 1
\* number of calls the callers make in one behaviour
MaxCalls == 3
\* number of payloads the gateway sends in one behaviour
MaxPayloads == 2
\* number of goroutines that call one cache instance
NumProcs == 2

Procs == 1..NumProcs
Groups == 1..NumGroups
IDs == 1..NumIDs

\* the zero value of T ("var entity T")
ZeroT == 0
\* the values of T: the zero value is a value a caller may store as well
Entities == ZeroT..NumEntities

----------------------------------------------------------------------------
(* Go's built-in map operations, on functions with a finite domain. *)

\* make(map[K]V)
EmptyMap == [x \in {} |-> ZeroT]

\* m[k] = v
MapPut(m, k, v) == [x \in DOMAIN m \cup {k} |-> IF x = k THEN v ELSE m[x]]

\* delete(m, k); a no-op when k is absent
MapDel(m, k) == [x \in DOMAIN m \ {k} |-> m[x]]

Range(f) == {f[x] : x \in DOMAIN f}

\* the orders in which a range loop may visit the keys S of a map
Orders(S) == {s \in [1..Cardinality(S) -> S] : \A a, b \in DOMAIN s : s[a] = s[b] => a = b}

----------------------------------------------------------------------------
(* Flags and policy. *)

\* the flag bits a cache may need; a Flags value is the set of its bits
FlagBits == {"Guilds"}

FlagsNone == {}

\* Flags.Missing: none of the given bits is set
Missing(f, bits) == f \cap bits = {}

VARIABLES
    impl,         \* the cache instance: a DefaultGroupedCache of package "cache" or
                  \* "core", or "users", the users cache of the bot
    flags,        \* c.flags
    neededFlags,  \* c.neededFlags
    policy,       \* c.policy: [isNil, accept], accept the entities it returns true for
    cache,        \* c.cache: [isNil, m], m maps a group id to its bucket's address
    heap,         \* the buckets: address -> (entity id -> entity)
    last,         \* the call that returned last, with its arguments and results
    ret,          \* the collection the caller holds from the last accessor call
    ncalls,       \* the number of calls made so far
    users,        \* bot.Caches().Users(): user id -> discord.User
    wire,         \* the payloads received and not yet handled, in wire order
    handled,      \* the payloads handled so far, in the order they were handled
    events,       \* the events given to bot.EventManager().Dispatch, in order
    lookups,      \* what a listener that looks the event's user up in the users
                  \* cache found, one entry per dispatched event
    crashed,      \* the goroutine of the pipeline died of a panic
    session,      \* the gateway session: lifecycle state, sequence number,
                  \* session identifier, heartbeat acknowledgment
    mu,           \* c.mu, the sync.RWMutex of the instance
    proc,         \* the goroutines that call the instance: where each one is in
                  \* its call, its arguments and local variables
    callee,       \* the call a callback has made and awaits the return of: the
                  \* entry of proc that call runs in (0: none)
    core,         \* a DefaultGroupedCache of package core that is given every
                  \* call the instance of package cache is given: its c.cache
                  \* and its buckets
    coreLast      \* the call of that instance that returned last


----------------------------------------------------------------------------
(* The store: the field c.cache together with the buckets it points to. *)

Store(c, h) == [cache |-> c, heap |-> h]

\* the smallest address no bucket of h has
NewAddr(h) == CHOOSE a \in 1..(Cardinality(DOMAIN h) + 1) :
                 a \notin DOMAIN h /\ \A b \in 1..(a - 1) : b \in DOMAIN h

\* the bucket of group g, as "groupEntities, ok := c.cache[groupID]" reads it
\* (a nil map reads as empty)
HasGroup(s, g) == ~s.cache.isNil /\ g \in DOMAIN s.cache.m
Bucket(s, g) == s.heap[s.cache.m[g]]

\* the garbage collector: the buckets no reference of refs and no group reaches
Collect(s, refs) ==
    [s EXCEPT !.heap = [a \in (DOMAIN s.heap) \cap (Range(s.cache.m) \cup refs) |-> s.heap[a]]]

\* Get
GetResult(s, g, id) ==
    IF HasGroup(s, g) /\ id \in DOMAIN Bucket(s, g)
    THEN [val |-> Bucket(s, g)[id], ok |-> TRUE]
    ELSE [val |-> ZeroT, ok |-> FALSE]

\* Put without its policy check
RejectedFlagsOnly(e) == neededFlags # FlagsNone /\ Missing(flags, neededFlags)

\* Put that asks the flags even when no flag is needed
RejectedWithoutNoneTest(e) ==
    \/ Missing(flags, neededFlags)
    \/ ~policy.isNil /\ e \notin policy.accept

\* the two early returns of Put
Rejected(e) ==
    \/ neededFlags # FlagsNone /\ Missing(flags, neededFlags)
    \/ ~policy.isNil /\ e \notin policy.accept

\* Put that always takes the branch of an absent group: a fresh bucket
PutBodyFreshBucket(s, g, id, e) ==
    LET c1 == IF s.cache.isNil THEN [isNil |-> FALSE, m |-> EmptyMap] ELSE s.cache
        a  == NewAddr(s.heap)
    IN  [cache |-> [c1 EXCEPT !.m = MapPut(@, g, a)],
         heap  |-> MapPut(s.heap, a, MapPut(EmptyMap, id, e))]

\* Put whose branch of an absent group stores the new bucket without the entity
PutBodyEmptyBucket(s, g, id, e) ==
    LET c1 == IF s.cache.isNil THEN [isNil |-> FALSE, m |-> EmptyMap] ELSE s.cache
    IN  IF g \in DOMAIN c1.m
        THEN [cache |-> c1,
              heap  |-> [s.heap EXCEPT ![c1.m[g]] = MapPut(@, id, e)]]
        ELSE LET a == NewAddr(s.heap)
             IN  [cache |-> [c1 EXCEPT !.m = MapPut(@, g, a)],
                  heap  |-> MapPut(s.heap, a, EmptyMap)]

\* Put past its admission checks, under the write lock
PutBody(s, g, id, e) ==
    LET c1 == IF s.cache.isNil THEN [isNil |-> FALSE, m |-> EmptyMap] ELSE s.cache
    IN  IF g \in DOMAIN c1.m
        THEN [cache |-> c1,
              heap  |-> [s.heap EXCEPT ![c1.m[g]] = MapPut(@, id, e)]]
        ELSE LET a == NewAddr(s.heap)
             IN  [cache |-> [c1 EXCEPT !.m = MapPut(@, g, a)],
                  heap  |-> MapPut(s.heap, a, MapPut(EmptyMap, id, e))]

DoPut(s, g, id, e) == IF Rejected(e) THEN s ELSE PutBody(s, g, id, e)

\* Remove that deletes and then returns its named results, never assigned
DoRemoveNakedReturn(s, g, id) ==
    IF HasGroup(s, g) /\ id \in DOMAIN Bucket(s, g)
    THEN [store |-> [s EXCEPT !.heap[s.cache.m[g]] = MapDel(@, id)],
          val |-> ZeroT, ok |-> FALSE]
    ELSE [store |-> s, val |-> ZeroT, ok |-> FALSE]

\* Remove that also deletes the bucket it has emptied
DoRemoveDropEmptied(s, g, id) ==
    IF HasGroup(s, g) /\ id \in DOMAIN Bucket(s, g)
    THEN [store |-> IF DOMAIN Bucket(s, g) = {id}
                    THEN [s EXCEPT !.cache.m = MapDel(@, g)]
                    ELSE [s EXCEPT !.heap[s.cache.m[g]] = MapDel(@, id)],
          val |-> Bucket(s, g)[id], ok |-> TRUE]
    ELSE [store |-> s, val |-> ZeroT, ok |-> FALSE]

\* Remove: the store afterwards and the (entity, ok) it returns
DoRemove(s, g, id) ==
    IF HasGroup(s, g) /\ id \in DOMAIN Bucket(s, g)
    THEN [store |-> [s EXCEPT !.heap[s.cache.m[g]] = MapDel(@, id)],
          val |-> Bucket(s, g)[id], ok |-> TRUE]
    ELSE [store |-> s, val |-> ZeroT, ok |-> FALSE]

\* RemoveAll that empties the bucket and keeps the group's key
DoRemoveAllKeepKey(s, g) ==
    IF HasGroup(s, g) THEN [s EXCEPT !.heap[s.cache.m[g]] = EmptyMap] ELSE s

\* RemoveAll: delete(c.cache, groupID); delete on a nil map is a no-op
DoRemoveAll(s, g) ==
    IF s.cache.isNil THEN s ELSE [s EXCEPT !.cache.m = MapDel(@, g)]

\* a GroupedCacheFilterFunc: true for the entities of es in the groups of gs
FilterFuncs ==
    {[gs |-> G, es |-> E] : G \in {Groups} \cup {{g} : g \in Groups},
                            E \in {Entities} \cup {{e} : e \in Entities}}

Holds(f, g, e) == g \in f.gs /\ e \in f.es

\* the orders in which the range loops of one call may visit the store: gs is
\* the order of the groups and ord[g] the order of the ids of group g
GroupOrders(s) == IF s.cache.isNil THEN {<<>>} ELSE Orders(DOMAIN s.cache.m)
IDOrders(s) ==
    IF s.cache.isNil THEN {EmptyMap}
    ELSE {o \in [DOMAIN s.cache.m -> UNION {Orders(DOMAIN Bucket(s, g)) : g \in DOMAIN s.cache.m}] :
             \A g \in DOMAIN s.cache.m :
                /\ Len(o[g]) = Cardinality(DOMAIN Bucket(s, g))
                /\ {o[g][k] : k \in 1..Len(o[g])} = DOMAIN Bucket(s, g)}

NoCalls == [x \in Groups \X IDs |-> 0]

\* the inner loop of RemoveIf over the bucket of g, from position k of ids;
\* r is [store, calls], calls counting the calls of filterFunc per entry.
\* An entry deleted before the loop reaches it is not visited.
RECURSIVE RemoveIfIDs(_, _, _, _, _)
RemoveIfIDs(r, g, ids, k, f) ==
    IF k > Len(ids) THEN r
    ELSE LET id == ids[k]
             b  == Bucket(r.store, g)
         IN  IF id \notin DOMAIN b THEN RemoveIfIDs(r, g, ids, k + 1, f)
             ELSE RemoveIfIDs(
                    [store |-> IF Holds(f, g, b[id])
                               THEN [r.store EXCEPT !.heap[r.store.cache.m[g]] = MapDel(@, id)]
                               ELSE r.store,
                     calls |-> [r.calls EXCEPT ![<<g, id>>] = @ + 1]],
                    g, ids, k + 1, f)

\* the outer loop of RemoveIf, from position k of gs
RECURSIVE RemoveIfGroups(_, _, _, _, _)
RemoveIfGroups(r, gs, k, ord, f) ==
    IF k > Len(gs) THEN r
    ELSE RemoveIfGroups(RemoveIfIDs(r, gs[k], ord[gs[k]], 1, f), gs, k + 1, ord, f)

\* RemoveIf that returns after the first group its outer loop visits
DoRemoveIfFirstGroup(s, f, gs, ord) ==
    RemoveIfGroups([store |-> s, calls |-> NoCalls],
                   IF gs = <<>> THEN gs ELSE <<gs[1]>>, 1, ord, f)

\* RemoveIf: the store afterwards and the calls of filterFunc it made
DoRemoveIf(s, f, gs, ord) == RemoveIfGroups([store |-> s, calls |-> NoCalls], gs, 1, ord, f)

\* GroupAll: nil for an absent group, else the bucket's entities in the order ids
GroupAllResult(s, g, ids) ==
    IF HasGroup(s, g)
    THEN [isNil |-> FALSE, val |-> [k \in 1..Len(ids) |-> Bucket(s, g)[ids[k]]]]
    ELSE [isNil |-> TRUE, val |-> <<>>]

\* what GroupAll(g) may return in store s
GroupAllResults(s, g) ==
    {GroupAllResult(s, g, ids) :
        ids \in IF HasGroup(s, g) THEN Orders(DOMAIN Bucket(s, g)) ELSE {<<>>}}

----------------------------------------------------------------------------
(* One caller at a time: every call runs from its first line to its return. *)

NoFilter == [gs |-> {}, es |-> {}]
NoRet == [kind |-> "none", isNil |-> TRUE, addr |-> 0, val |-> EmptyMap]

\* the record of a call: its name, its arguments, and what it returned
Call(op, g, id, e, val, ok) ==
    [op |-> op, g |-> g, id |-> id, e |-> e, val |-> val, ok |-> ok,
     f |-> NoFilter, calls |-> NoCalls]

\* the addresses the caller holds
RetRefs(r) == IF r.kind = "inner" /\ ~r.isNil THEN {r.addr} ELSE {}

\* the store becomes s, less the buckets nothing refers to any more
SetStore(s, r) ==
    /\ cache' = s.cache
    /\ heap' = Collect(s, RetRefs(r)).heap

gwVars == <<users, wire, handled, events, lookups, crashed, session>>
cacheVars == <<impl, flags, neededFlags, policy, cache, heap, last, ret, ncalls>>
confVars == <<impl, flags, neededFlags, policy>>
concVars == <<mu, proc, callee>>
twinVars == <<core, coreLast>>
vars == <<impl, flags, neededFlags, policy, cache, heap, last, ret, ncalls,
          users, wire, handled, events, lookups, crashed, session, mu, proc, callee,
          core, coreLast>>

\* one more call of a method of the cache, within the budget of the behaviour
Called ==
    /\ ncalls < MaxCalls
    /\ ncalls' = ncalls + 1
    /\ UNCHANGED confVars
    /\ UNCHANGED gwVars
    /\ UNCHANGED concVars
    /\ UNCHANGED twinVars

Policies == {[isNil |-> TRUE, accept |-> {}], [isNil |-> FALSE, accept |-> Entities \ {ZeroT}]}

\* NewGroupedCache, or a DefaultGroupedCache literal whose cache field is nil
InitCache ==
    /\ impl \in {"cache", "core"}
    /\ flags \in SUBSET FlagBits
    /\ neededFlags \in {FlagsNone} \cup {{b} : b \in FlagBits}
    /\ policy \in Policies
    /\ cache \in {[isNil |-> n, m |-> EmptyMap] : n \in BOOLEAN}
    /\ heap = EmptyMap
    /\ last = Call("New", 0, 0, ZeroT, ZeroT, FALSE)
    /\ ret = NoRet
    /\ ncalls = 0

Get(g, id) ==
    LET r == GetResult(Store(cache, heap), g, id)
    IN  /\ Called
        /\ last' = Call("Get", g, id, ZeroT, r.val, r.ok)
        /\ UNCHANGED <<cache, heap, ret>>

\* last.ok records whether the Put was admitted
Put(g, id, e) ==
    /\ Called
    /\ SetStore(DoPut(Store(cache, heap), g, id, e), ret)
    /\ last' = Call("Put", g, id, e, ZeroT, ~Rejected(e))
    /\ UNCHANGED ret

Remove(g, id) ==
    LET r == DoRemove(Store(cache, heap), g, id)
    IN  /\ Called
        /\ SetStore(r.store, ret)
        /\ last' = Call("Remove", g, id, ZeroT, r.val, r.ok)
        /\ UNCHANGED ret

RemoveAll(g) ==
    /\ Called
    /\ SetStore(DoRemoveAll(Store(cache, heap), g), ret)
    /\ last' = Call("RemoveAll", g, 0, ZeroT, ZeroT, FALSE)
    /\ UNCHANGED ret

\* RemoveIf is a method of package cache only
RemoveIf(f) ==
    /\ impl = "cache"
    /\ Called
    /\ \E gs \in GroupOrders(Store(cache, heap)), ord \in IDOrders(Store(cache, heap)) :
          LET r == DoRemoveIf(Store(cache, heap), f, gs, ord)
          IN  /\ SetStore(r.store, ret)
              /\ last' = [Call("RemoveIf", 0, 0, ZeroT, ZeroT, FALSE) EXCEPT !.f = f, !.calls = r.calls]
    /\ UNCHANGED ret

----------------------------------------------------------------------------
(* The accessors that return a collection, and the caller that keeps it. *)

\* the entities of group g in the order ids of its ids
GroupList(s, g, ids) == [k \in 1..Len(ids) |-> Bucket(s, g)[ids[k]]]

\* a copy of the bucket of group g
GroupCopy(s, g) == [id \in DOMAIN Bucket(s, g) |-> Bucket(s, g)[id]]

StoredGroups(s) == IF s.cache.isNil THEN {} ELSE DOMAIN s.cache.m

\* the list FindAll builds from position k of the order gs of the groups
RECURSIVE FindAllFrom(_, _, _, _, _)
FindAllFrom(s, f, gs, k, ord) ==
    IF k > Len(gs) THEN <<>>
    ELSE SelectSeq(GroupList(s, gs[k], ord[gs[k]]), LAMBDA e : Holds(f, gs[k], e))
            \o FindAllFrom(s, f, gs, k + 1, ord)

\* GroupFindAll: the entities of the bucket, in the order ids, that f is true
\* for; c.cache[groupID] of an absent group is a nil map and the loop visits
\* nothing
GroupFindAllResult(s, g, f, ids) ==
    IF HasGroup(s, g)
    THEN SelectSeq(GroupList(s, g, ids), LAMBDA e : Holds(f, g, e))
    ELSE <<>>

\* the inner loop of FindFirst over the bucket of g, from position k of ids
RECURSIVE FindFirstIDs(_, _, _, _, _)
FindFirstIDs(s, f, g, ids, k) ==
    IF k > Len(ids) THEN [val |-> ZeroT, ok |-> FALSE]
    ELSE IF Holds(f, g, Bucket(s, g)[ids[k]])
         THEN [val |-> Bucket(s, g)[ids[k]], ok |-> TRUE]
         ELSE FindFirstIDs(s, f, g, ids, k + 1)

\* the outer loop of FindFirst, from position k of gs: the first entity the
\* loops reach that f is true for
RECURSIVE FindFirstFrom(_, _, _, _, _)
FindFirstFrom(s, f, gs, k, ord) ==
    IF k > Len(gs) THEN [val |-> ZeroT, ok |-> FALSE]
    ELSE LET r == FindFirstIDs(s, f, gs[k], ord[gs[k]], 1)
         IN  IF r.ok THEN r ELSE FindFirstFrom(s, f, gs, k + 1, ord)

\* GroupFindFirst: the loop over c.cache[groupID]
GroupFindFirstResult(s, g, f, ids) ==
    IF HasGroup(s, g)
    THEN FindFirstIDs(s, f, g, ids, 1)
    ELSE [val |-> ZeroT, ok |-> FALSE]

\* what the caller holds after an accessor returned
Copy(kind, isNil, val) == [kind |-> kind, isNil |-> isNil, addr |-> 0, val |-> val]
Ref(kind, isNil, addr) == [kind |-> kind, isNil |-> isNil, addr |-> addr, val |-> EmptyMap]

\* an accessor returns r: the store is as it was, the caller holds r
Returns(op, g, r) ==
    /\ Called
    /\ ret' = r
    /\ last' = Call(op, g, 0, ZeroT, ZeroT, FALSE)
    /\ SetStore(Store(cache, heap), r)

\* All: one list per key of c.cache, the bucket's entities in the order ord[g]
AllResult(s, ord) == [g \in StoredGroups(s) |-> GroupList(s, g, ord[g])]

\* MapAll: one map per key of c.cache, a copy of the bucket
MapAllResult(s) == [g \in StoredGroups(s) |-> GroupCopy(s, g)]

All ==
    \E ord \in IDOrders(Store(cache, heap)) :
        Returns("All", 0, Copy("lists", FALSE, AllResult(Store(cache, heap), ord)))

GroupAll(g) ==
    \E r \in GroupAllResults(Store(cache, heap), g) :
        Returns("GroupAll", g, Copy("list", r.isNil, r.val))

\* MapAll and MapGroupAll are methods of package cache only
MapAll ==
    /\ impl = "cache"
    /\ Returns("MapAll", 0, Copy("map2", FALSE, MapAllResult(Store(cache, heap))))

MapGroupAll(g) ==
    /\ impl = "cache"
    /\ Returns("MapGroupAll", g,
               IF HasGroup(Store(cache, heap), g)
               THEN Copy("map1", FALSE, GroupCopy(Store(cache, heap), g))
               ELSE Copy("map1", TRUE, EmptyMap))

FindAll(f) ==
    \E gs \in GroupOrders(Store(cache, heap)), ord \in IDOrders(Store(cache, heap)) :
        Returns("FindAll", 0,
                Copy("list", FALSE, FindAllFrom(Store(cache, heap), f, gs, 1, ord)))

\* c.cache[groupID] of an absent group is a nil map: the loop visits nothing
GroupFindAll(g, f) ==
    \E ord \in IDOrders(Store(cache, heap)) :
        Returns("GroupFindAll", g,
                Copy("list", FALSE,
                     GroupFindAllResult(Store(cache, heap), g, f,
                                        IF HasGroup(Store(cache, heap), g) THEN ord[g] ELSE <<>>)))

\* Cache and GroupCache are methods of package core only.
\* Cache returns c.cache, the map of the groups itself
CacheRef ==
    /\ impl = "core"
    /\ Returns("Cache", 0, Ref("outer", cache.isNil, 0))

\* GroupCache returns the bucket of the group itself, or nil
GroupCache(g) ==
    /\ impl = "core"
    /\ Returns("GroupCache", g,
               IF HasGroup(Store(cache, heap), g)
               THEN Ref("inner", FALSE, cache.m[g])
               ELSE Ref("inner", TRUE, 0))

\* what the caller reads in the collection it holds
RetView ==
    CASE ret.kind = "outer" /\ ~ret.isNil ->
            [g \in DOMAIN cache.m |-> heap[cache.m[g]]]
      [] ret.kind = "inner" /\ ~ret.isNil -> heap[ret.addr]
      [] OTHER -> ret.val

\* the caller changes the collection it holds: it assigns m[id] = e to a map
\* of entities, deletes the key g of a map of groups, or assigns l[0] = e to
\* a list that has an element
CallerModify(g, id, e) ==
    /\ Called
    /\ last' = Call("CallerModify", g, id, e, ZeroT, FALSE)
    /\ CASE ret.kind = "inner" /\ ~ret.isNil ->
              /\ heap' = [heap EXCEPT ![ret.addr] = MapPut(@, id, e)]
              /\ UNCHANGED <<cache, ret>>
         [] ret.kind = "outer" /\ ~ret.isNil ->
              /\ SetStore([Store(cache, heap) EXCEPT !.cache.m = MapDel(@, g)], ret)
              /\ UNCHANGED ret
         [] ret.kind = "map1" /\ ~ret.isNil ->
              /\ ret' = [ret EXCEPT !.val = MapPut(@, id, e)]
              /\ UNCHANGED <<cache, heap>>
         [] ret.kind \in {"map2", "lists"} ->
              /\ ret' = [ret EXCEPT !.val = MapDel(@, g)]
              /\ UNCHANGED <<cache, heap>>
         [] ret.kind = "list" /\ Len(ret.val) > 0 ->
              /\ ret' = [ret EXCEPT !.val[1] = e]
              /\ UNCHANGED <<cache, heap>>
         [] OTHER -> FALSE

----------------------------------------------------------------------------
(* Concurrent callers.  A call is a sequence of steps: it takes c.mu, reads *)
(* or writes the map, and releases c.mu when it returns (defer).  A value  *)
(* of T takes two words of memory, so a read or a write of an entity is    *)
(* two steps, and only c.mu keeps a reader from seeing half of a write.    *)

\* the entity v as it lies in memory
Whole(v) == <<v, v>>

\* sync.RWMutex: w is the goroutine that holds the writer's mutex (0: none),
\* readers the goroutines that hold a read lock, waitR the goroutines that
\* called RLock while a writer held or awaited the lock
Unlocked == [w |-> 0, readers |-> {}, waitR |-> {}]

NotFound == [val |-> Whole(ZeroT), ok |-> FALSE]

\* a goroutine between two calls
Idle == [pc |-> "idle", op |-> "none", g |-> 0, id |-> 0, v |-> ZeroT,
         res |-> NotFound, pre |-> NotFound, obs |-> {}, raced |-> {},
         scan |-> {}, acc |-> EmptyMap, f |-> NoFilter]

\* what the map holds under (g, id)
Content(s, g, id) ==
    IF HasGroup(s, g) /\ id \in DOMAIN Bucket(s, g)
    THEN [val |-> Bucket(s, g)[id], ok |-> TRUE]
    ELSE NotFound

\* what the map holds under g: no bucket, or the entities of the bucket
GroupSnap(s, g) ==
    IF HasGroup(s, g)
    THEN [isNil |-> FALSE, val |-> Bucket(s, g)]
    ELSE [isNil |-> TRUE, val |-> EmptyMap]

\* what a call of op with these arguments could read of the map now
View(s, op, g, id) ==
    IF op = "GroupAll" THEN GroupSnap(s, g) ELSE Content(s, g, id)

\* no goroutine has called yet
InitCallers ==
    /\ mu = Unlocked
    /\ proc = [p \in Procs |-> Idle]
    /\ callee = [p \in Procs |-> 0]

\* what a step of a concurrent call leaves alone
CallerFrame == UNCHANGED <<confVars, gwVars, last, ret, callee, twinVars>>

Goto(p, pc) == proc' = [proc EXCEPT ![p].pc = pc] /\ CallerFrame

\* the call returns to the goroutine
Return(p) == proc' = [proc EXCEPT ![p] = Idle] /\ CallerFrame

\* the key the goroutines contend for
Key == [g |-> CHOOSE g \in Groups : \A h \in Groups : g <= h,
        id |-> CHOOSE i \in IDs : \A j \in IDs : i <= j]

\* a goroutine calls a method: the call has not returned yet
Begin(p, op, g, id, v, pc) ==
    /\ proc[p].pc = "idle"
    /\ ncalls < MaxCalls
    /\ ncalls' = ncalls + 1
    /\ proc' = [proc EXCEPT ![p] =
                  [Idle EXCEPT !.pc = pc, !.op = op, !.g = g, !.id = id, !.v = v,
                               !.obs = {View(Store(cache, heap), op, g, id)}]]
    /\ CallerFrame
    /\ UNCHANGED <<cache, heap, mu>>

\* c.mu.RLock(): a reader goes on unless a writer holds or awaits the lock
RLockNoWait(p) ==
    /\ proc[p].pc = "rlock"
    /\ mu' = [mu EXCEPT !.readers = @ \cup {p}]
    /\ Goto(p, "read")
    /\ UNCHANGED <<cache, heap, ncalls>>

RLock(p) ==
    /\ proc[p].pc = "rlock"
    /\ IF mu.w = 0
       THEN /\ mu' = [mu EXCEPT !.readers = @ \cup {p}]
            /\ Goto(p, "read")
       ELSE /\ mu' = [mu EXCEPT !.waitR = @ \cup {p}]
            /\ Goto(p, "rwait")
    /\ UNCHANGED <<cache, heap, ncalls>>

\* a reader that waited goes on once the writer's Unlock has let it in
RLockWake(p) ==
    /\ proc[p].pc = "rwait"
    /\ p \in mu.readers
    /\ Goto(p, "read")
    /\ UNCHANGED <<cache, heap, mu, ncalls>>

\* c.mu.Lock(): first the writer's mutex, which also holds off new readers
LockW(p) ==
    /\ proc[p].pc = "lock"
    /\ mu.w = 0
    /\ mu' = [mu EXCEPT !.w = p]
    /\ Goto(p, "drain")
    /\ UNCHANGED <<cache, heap, ncalls>>

\* Lock that does not wait for the readers to leave
LockDrainNoWait(p) ==
    /\ proc[p].pc = "drain"
    /\ Goto(p, "write")
    /\ UNCHANGED <<cache, heap, mu, ncalls>>

\* c.mu.Lock(): then the writer waits until the readers have left
LockDrain(p) ==
    /\ proc[p].pc = "drain"
    /\ mu.readers = {}
    /\ Goto(p, "write")
    /\ UNCHANGED <<cache, heap, mu, ncalls>>

\* the Gets and GroupAlls in progress could read what the map holds after
\* a write
Observe(q, s) ==
    IF proc[q].op \in {"Get", "GroupAll"} /\ proc[q].pc # "idle"
    THEN [proc[q] EXCEPT !.obs = @ \cup {View(s, proc[q].op, proc[q].g, proc[q].id)}]
    ELSE proc[q]

Get_Call(p, g, id) ==
    /\ impl \in {"cache", "core"}
    /\ Begin(p, "Get", g, id, ZeroT, "rlock")

\* Get reads the entry: the first word of the entity, then the second
Get_Read1(p) ==
    /\ proc[p].op = "Get"
    /\ proc[p].pc = "read"
    /\ proc' = [proc EXCEPT ![p].pc = "read2",
                            ![p].res = Content(Store(cache, heap), proc[p].g, proc[p].id)]
    /\ CallerFrame
    /\ UNCHANGED <<cache, heap, mu, ncalls>>

Get_Read2(p) ==
    /\ proc[p].op = "Get"
    /\ proc[p].pc = "read2"
    /\ proc' = [proc EXCEPT ![p].pc = "runlock",
                  ![p].res = IF proc[p].res.ok
                             THEN [val |-> <<proc[p].res.val[1],
                                             Content(Store(cache, heap), proc[p].g, proc[p].id).val[2]>>,
                                   ok |-> TRUE]
                             ELSE NotFound]
    /\ CallerFrame
    /\ UNCHANGED <<cache, heap, mu, ncalls>>

\* the deferred c.mu.RUnlock(), and the call returns
RUnlock(p) ==
    /\ proc[p].op # "GroupCache"
    /\ proc[p].pc = "runlock"
    /\ mu' = [mu EXCEPT !.readers = @ \ {p}]
    /\ Return(p)
    /\ UNCHANGED <<cache, heap, ncalls>>

\* Put returns at once when the flags or the policy reject the entity
Put_Call(p, g, id, v) ==
    IF Rejected(v)
    THEN /\ proc[p].pc = "idle"
         /\ ncalls < MaxCalls
         /\ ncalls' = ncalls + 1
         /\ CallerFrame
         /\ UNCHANGED <<cache, heap, mu, proc>>
    ELSE Begin(p, "Put", g, id, v, "lock")

\* Put writes the entry: the first word of the entity, then the second
Put_Write1(p) ==
    /\ proc[p].op = "Put"
    /\ proc[p].pc = "write"
    /\ LET s == Store(cache, heap)
           old == Content(s, proc[p].g, proc[p].id)
           s1 == PutBody(s, proc[p].g, proc[p].id, <<proc[p].v, old.val[2]>>)
       IN  /\ cache' = s1.cache
           /\ heap' = s1.heap
           /\ proc' = [proc EXCEPT ![p].pc = "write2", ![p].pre = old]
    /\ CallerFrame
    /\ UNCHANGED <<mu, ncalls>>

Put_Write2(p) ==
    /\ proc[p].op = "Put"
    /\ proc[p].pc = "write2"
    /\ LET s1 == PutBody(Store(cache, heap), proc[p].g, proc[p].id, Whole(proc[p].v))
       IN  /\ cache' = s1.cache
           /\ heap' = s1.heap
           /\ proc' = [q \in Procs |->
                         IF q = p THEN [proc[p] EXCEPT !.pc = "unlock"]
                         ELSE IF proc[q].op = "Get" /\ proc[q].pc # "idle"
                                 /\ proc[q].g = proc[p].g /\ proc[q].id = proc[p].id
                              THEN [Observe(q, s1) EXCEPT
                                      !.raced = @ \cup {[pre |-> proc[p].pre,
                                                         new |-> [val |-> Whole(proc[p].v), ok |-> TRUE]]}]
                              ELSE Observe(q, s1)]
    /\ CallerFrame
    /\ UNCHANGED <<mu, ncalls>>

Remove_Call(p, g, id) ==
    /\ impl \in {"cache", "core"}
    /\ Begin(p, "Remove", g, id, ZeroT, "lock")

Remove_Write(p) ==
    /\ proc[p].op = "Remove"
    /\ proc[p].pc = "write"
    /\ LET r == DoRemove(Store(cache, heap), proc[p].g, proc[p].id)
           s1 == Collect(r.store, {})
       IN  /\ cache' = s1.cache
           /\ heap' = s1.heap
           /\ proc' = [q \in Procs |->
                         IF q = p
                         THEN [proc[p] EXCEPT !.pc = "unlock",
                                 !.res = IF r.ok THEN [val |-> r.val, ok |-> TRUE] ELSE NotFound]
                         ELSE Observe(q, s1)]
    /\ CallerFrame
    /\ UNCHANGED <<mu, ncalls>>

RemoveAll_Call(p, g) ==
    /\ impl \in {"cache", "core"}
    /\ Begin(p, "RemoveAll", g, 0, ZeroT, "lock")

RemoveAll_Write(p) ==
    /\ proc[p].op = "RemoveAll"
    /\ proc[p].pc = "write"
    /\ LET s1 == Collect(DoRemoveAll(Store(cache, heap), proc[p].g), {})
       IN  /\ cache' = s1.cache
           /\ heap' = s1.heap
           /\ proc' = [q \in Procs |->
                         IF q = p THEN [proc[p] EXCEPT !.pc = "unlock"] ELSE Observe(q, s1)]
    /\ CallerFrame
    /\ UNCHANGED <<mu, ncalls>>

\* Unlock that leaves the readers that waited asleep
UnlockNoWake(p) ==
    /\ proc[p].pc = "unlock"
    /\ mu' = [mu EXCEPT !.w = 0]
    /\ Return(p)
    /\ UNCHANGED <<cache, heap, ncalls>>

\* the deferred c.mu.Unlock(): the readers that waited are let in, and the
\* call returns
Unlock(p) ==
    /\ proc[p].pc = "unlock"
    /\ mu' = [w |-> 0, readers |-> mu.readers \cup mu.waitR, waitR |-> {}]
    /\ Return(p)
    /\ UNCHANGED <<cache, heap, ncalls>>

\* the pairs the map holds an entity under
Stored(s) ==
    {k \in Groups \X IDs : HasGroup(s, k[1]) /\ k[2] \in DOMAIN Bucket(s, k[1])}

\* the filters the concurrent callers pass: on the entity alone
ConcFilters == {f \in FilterFuncs : f.gs = Groups}

\* package cache only
RemoveIf_Call(p, f) ==
    /\ impl = "cache"
    /\ proc[p].pc = "idle"
    /\ ncalls < MaxCalls
    /\ ncalls' = ncalls + 1
    /\ proc' = [proc EXCEPT ![p] = [Idle EXCEPT !.pc = "lock", !.op = "RemoveIf", !.f = f]]
    /\ CallerFrame
    /\ UNCHANGED <<cache, heap, mu>>

\* RemoveIf starts its two range loops over what the map holds
RemoveIf_Write(p) ==
    /\ proc[p].op = "RemoveIf"
    /\ proc[p].pc = "write"
    /\ LET ks == Stored(Store(cache, heap))
       IN  proc' = [proc EXCEPT ![p].pc = IF ks = {} THEN "unlock" ELSE "sweep",
                                ![p].scan = ks]
    /\ CallerFrame
    /\ UNCHANGED <<cache, heap, mu, ncalls>>

\* RemoveIf calls filterFunc on one entity, in an order of the map's
\* choosing, and deletes the entity when filterFunc says so
RemoveIf_Sweep(p, k) ==
    /\ proc[p].op = "RemoveIf"
    /\ proc[p].pc = "sweep"
    /\ k \in proc[p].scan
    /\ LET s == Store(cache, heap)
           c == Content(s, k[1], k[2])
           s1 == IF c.ok /\ Holds(proc[p].f, k[1], c.val[1])
                 THEN DoRemove(s, k[1], k[2]).store
                 ELSE s
       IN  /\ cache' = s1.cache
           /\ heap' = s1.heap
           /\ proc' = [q \in Procs |->
                         IF q = p
                         THEN [proc[p] EXCEPT
                                 !.pc = IF proc[p].scan = {k} THEN "unlock" ELSE "sweep",
                                 !.scan = @ \ {k}]
                         ELSE Observe(q, s1)]
    /\ CallerFrame
    /\ UNCHANGED <<mu, ncalls>>

GroupAll_Call(p, g) ==
    /\ impl \in {"cache", "core"}
    /\ Begin(p, "GroupAll", g, 0, ZeroT, "rlock")

\* GroupAll looks the bucket of the group up: nil when there is none, and
\* an empty list when the bucket is empty
GroupAll_Read(p) ==
    /\ proc[p].op = "GroupAll"
    /\ proc[p].pc = "read"
    /\ LET snap == GroupSnap(Store(cache, heap), proc[p].g)
       IN  proc' = [proc EXCEPT ![p].pc = IF DOMAIN snap.val = {} THEN "runlock" ELSE "range",
                                ![p].res = [NotFound EXCEPT !.ok = ~snap.isNil],
                                ![p].scan = DOMAIN snap.val]
    /\ CallerFrame
    /\ UNCHANGED <<cache, heap, mu, ncalls>>

\* GroupAll ranges over the entries of the bucket, in an order of the map's
\* choosing, and appends the entity of each entry that is still there
GroupAll_Range(p, id) ==
    /\ proc[p].op = "GroupAll"
    /\ proc[p].pc = "range"
    /\ id \in proc[p].scan
    /\ LET c == Content(Store(cache, heap), proc[p].g, id)
       IN  proc' = [proc EXCEPT
                      ![p].pc = IF proc[p].scan = {id} THEN "runlock" ELSE "range",
                      ![p].scan = @ \ {id},
                      ![p].acc = IF c.ok THEN MapPut(@, id, c.val) ELSE @]
    /\ CallerFrame
    /\ UNCHANGED <<cache, heap, mu, ncalls>>

\* core only: Cache() takes no lock
Cache_Call(p) ==
    /\ impl = "core"
    /\ Begin(p, "Cache", 0, 0, ZeroT, "cacheread")

\* core only: Cache() reads c.cache and returns it; its caller then reads
\* the map it was given
Cache_Read(p) ==
    /\ proc[p].op = "Cache"
    /\ proc[p].pc = "cacheread"
    /\ IF cache.isNil THEN Return(p) ELSE Goto(p, "useref")
    /\ UNCHANGED <<cache, heap, mu, ncalls>>

GroupCache_Call(p, g) ==
    /\ impl = "core"
    /\ Begin(p, "GroupCache", g, 0, ZeroT, "rlock")

\* core only: GroupCache looks the bucket up under the read lock
GroupCache_Read(p) ==
    /\ proc[p].op = "GroupCache"
    /\ proc[p].pc = "read"
    /\ proc' = [proc EXCEPT ![p].pc = "runlock",
                            ![p].res = [NotFound EXCEPT !.ok = HasGroup(Store(cache, heap), proc[p].g)]]
    /\ CallerFrame
    /\ UNCHANGED <<cache, heap, mu, ncalls>>

\* core only: GroupCache returns the bucket itself, and its caller then reads
\* the map it was given
GroupCache_RUnlock(p) ==
    /\ proc[p].op = "GroupCache"
    /\ proc[p].pc = "runlock"
    /\ mu' = [mu EXCEPT !.readers = @ \ {p}]
    /\ IF proc[p].res.ok THEN Goto(p, "useref") ELSE Return(p)
    /\ UNCHANGED <<cache, heap, ncalls>>

\* the caller of Cache or GroupCache has read the map it was given
Caller_Read(p) ==
    /\ proc[p].pc = "useref"
    /\ Return(p)
    /\ UNCHANGED <<cache, heap, mu, ncalls>>

----------------------------------------------------------------------------
(* The methods that call a function of their caller on every entity they   *)
(* range over, with c.mu held.  The function may call the same instance:   *)
(* that call runs in another entry of proc, on the same sync.RWMutex, and  *)
(* the method goes on when it has returned (the mutex knows no owner: it   *)
(* treats the call like any other).                                        *)

\* the methods that hold the read lock while they call the function
Enumerations == {"ForEach", "ForEachGroup", "FindFirst", "FindAll"}

\* the methods of the instance a function calls
NestedOps == {"Get", "Put", "Remove", "RemoveAll", "RemoveIf"}

\* entry q of proc runs no call and no callback waits for it
Free(q) == proc[q].pc = "idle" /\ \A p \in Procs : callee[p] # q

\* a goroutine calls a method that takes the function f
Enumerate(p, op, g, f) ==
    /\ proc[p].pc = "idle"
    /\ ncalls < MaxCalls
    /\ ncalls' = ncalls + 1
    /\ proc' = [proc EXCEPT ![p] = [Idle EXCEPT !.pc = "rlock", !.op = op, !.g = g, !.f = f]]
    /\ CallerFrame
    /\ UNCHANGED <<cache, heap, mu>>

ForEach_Call(p) ==
    /\ impl \in {"cache", "core"}
    /\ Enumerate(p, "ForEach", 0, NoFilter)

ForEachGroup_Call(p, g) ==
    /\ impl \in {"cache", "core"}
    /\ Enumerate(p, "ForEachGroup", g, NoFilter)

FindFirst_Call(p, f) ==
    /\ impl \in {"cache", "core"}
    /\ Enumerate(p, "FindFirst", 0, f)

FindAll_Call(p, f) ==
    /\ impl \in {"cache", "core"}
    /\ Enumerate(p, "FindAll", 0, f)

\* the lock is taken: the range loops start over what the map holds (the
\* bucket of the group for ForEachGroup, every bucket for the others)
RangeLoop(p) ==
    /\ \/ proc[p].op \in Enumerations /\ proc[p].pc = "read"
       \/ proc[p].op = "RemoveIf" /\ proc[p].pc = "write"
    /\ LET ks == IF proc[p].op = "ForEachGroup"
                 THEN {k \in Stored(Store(cache, heap)) : k[1] = proc[p].g}
                 ELSE Stored(Store(cache, heap))
       IN  proc' = [proc EXCEPT
                      ![p].pc = IF ks # {} THEN "iter"
                                ELSE IF proc[p].op = "RemoveIf" THEN "unlock" ELSE "runlock",
                      ![p].scan = ks]
    /\ CallerFrame
    /\ UNCHANGED <<cache, heap, mu, ncalls>>

\* the loop reaches an entry, in an order of the map's choosing, and calls
\* the function on its entity
Callback_Call(p, k) ==
    /\ proc[p].pc = "iter"
    /\ k \in proc[p].scan
    /\ proc' = [proc EXCEPT ![p].pc = "callback",
                            ![p].g = k[1],
                            ![p].id = k[2],
                            ![p].v = Content(Store(cache, heap), k[1], k[2]).val[1],
                            ![p].scan = @ \ {k}]
    /\ CallerFrame
    /\ UNCHANGED <<cache, heap, mu, ncalls>>

\* the function calls a method of the instance, on the entry it was called
\* with: Get takes the read lock, Put asks the flags and the policy first,
\* the others take the write lock.  The call runs in the first free entry
\* of proc.
Callback_Nest(p, q, op, v, f) ==
    /\ proc[p].pc = "callback"
    /\ callee[p] = 0
    /\ q # p
    /\ Free(q)
    /\ \A r \in Procs \ {p} : Free(r) => q <= r
    /\ ncalls < MaxCalls
    /\ ncalls' = ncalls + 1
    /\ callee' = [callee EXCEPT ![p] = q]
    /\ proc' = [proc EXCEPT ![q] =
                  [Idle EXCEPT !.pc = CASE op = "Get" -> "rlock"
                                        [] op = "Put" -> "admit"
                                        [] OTHER -> "lock",
                               !.op = op, !.g = proc[p].g, !.id = proc[p].id,
                               !.v = v, !.f = f,
                               !.obs = {View(Store(cache, heap), op, proc[p].g, proc[p].id)}]]
    /\ UNCHANGED <<confVars, gwVars, last, ret, twinVars>>
    /\ UNCHANGED <<cache, heap, mu>>

\* Put called by a function: it returns at once when the flags or the policy
\* reject the entity, before it takes the lock
Put_Admit(p) ==
    /\ proc[p].op = "Put"
    /\ proc[p].pc = "admit"
    /\ IF Rejected(proc[p].v) THEN Return(p) ELSE Goto(p, "lock")
    /\ UNCHANGED <<cache, heap, mu, ncalls>>

\* the function returns, after the call it made (if any) has returned:
\* FindFirst returns the entity the function is true for, FindAll appends it,
\* RemoveIf deletes its entry; the loop goes on or the method leaves it
Callback_Return(p) ==
    /\ proc[p].pc = "callback"
    /\ callee[p] # 0 => proc[callee[p]].pc = "idle"
    /\ callee' = [callee EXCEPT ![p] = 0]
    /\ LET s == Store(cache, heap)
           op == proc[p].op
           holds == Holds(proc[p].f, proc[p].g, proc[p].v)
           s1 == IF op = "RemoveIf" /\ holds
                 THEN DoRemove(s, proc[p].g, proc[p].id).store
                 ELSE s
           found == op = "FindFirst" /\ holds
           donePc == IF op = "RemoveIf" THEN "unlock" ELSE "runlock"
       IN  /\ cache' = s1.cache
           /\ heap' = s1.heap
           /\ proc' = [q \in Procs |->
                         IF q = p
                         THEN [proc[p] EXCEPT
                                 !.pc = IF found \/ proc[p].scan = {} THEN donePc ELSE "iter",
                                 !.res = IF found THEN [val |-> Whole(proc[p].v), ok |-> TRUE] ELSE @,
                                 !.acc = IF op = "FindAll" /\ holds
                                         THEN MapPut(@, <<proc[p].g, proc[p].id>>, Whole(proc[p].v))
                                         ELSE @]
                         ELSE Observe(q, s1)]
    /\ UNCHANGED <<confVars, gwVars, last, ret, twinVars>>
    /\ UNCHANGED <<mu, ncalls>>

----------------------------------------------------------------------------
(* The gateway handler of guild-ban-remove payloads. *)

\* discord.User, by the two fields the model tells users apart with
Usernames == {"ann", "bob"}
Users == [ID : IDs, Username : Usernames]

\* discord.GuildBanRemoveGatewayEvent
Payloads == [GuildID : Groups, User : Users]

\* the policies of the users cache: none, or one that keeps only "bob"s
UserPolicies ==
    {[isNil |-> TRUE, accept |-> {}],
     [isNil |-> FALSE, accept |-> {u \in Users : u.Username = "bob"}]}

\* the zero value of discord.User
NoUser == [ID |-> 0, Username |-> ""]

\* Put of the users cache: the admission of Put, then users[id] = user
UsersPut(u, id, user) == IF Rejected(user) THEN u ELSE MapPut(u, id, user)

\* events.GuildUnbanEvent with the sequence number of its GenericEvent
GuildUnbanEvent(seq, payload) ==
    [seq |-> seq, GuildID |-> payload.GuildID, User |-> payload.User]

\* the handler that keys the user by the payload's guild
HandlerPutUnderGuild(u, payload) == UsersPut(u, payload.GuildID, payload.User)

\* the handler that stores a user only when the cache knows none under its id
HandlerPutIfAbsent(u, payload) ==
    IF payload.User.ID \in DOMAIN u THEN u
    ELSE UsersPut(u, payload.User.ID, payload.User)

\* what HandleGatewayEvent does to the users cache
HandlerPut(u, payload) == UsersPut(u, payload.User.ID, payload.User)

\* a session that has not connected yet: no sequence number (0), no session
\* identifier, no handshake sent, no connection lost
NoID == "none"
NoShake == [kind |-> "none", seq |-> 0, id |-> NoID]
NoLoss == [code |-> "none", seq |-> 0, id |-> NoID]
NewSession ==
    [state |-> "Disconnected", seq |-> 0, id |-> NoID, resume |-> FALSE,
     acked |-> TRUE, flood |-> FALSE, shake |-> NoShake, lost |-> NoLoss,
     ev |-> "new"]

InitGateway ==
    /\ session = NewSession
    /\ users = EmptyMap
    /\ wire = <<>>
    /\ handled = <<>>
    /\ events = <<>>
    /\ lookups = <<>>
    /\ crashed = FALSE

\* the gateway sends a payload with the next sequence number
Receive(payload) ==
    /\ Len(handled) + Len(wire) < MaxPayloads
    /\ wire' = Append(wire, [seq |-> Len(handled) + Len(wire) + 1, v |-> payload])
    /\ UNCHANGED <<users, handled, events, lookups, crashed, session>>
    /\ UNCHANGED cacheVars
    /\ UNCHANGED concVars
    /\ UNCHANGED twinVars

\* values that are no *discord.GuildBanRemoveGatewayEvent: a nil interface
\* and a pointer to the payload of another event
OtherValues == {[Type |-> "nil"], [Type |-> "*discord.GuildBanAddGatewayEvent"]}
Values == Payloads \cup OtherValues

\* v.(*discord.GuildBanRemoveGatewayEvent) succeeds
IsBanRemove(v) == "Type" \notin DOMAIN v

\* a caller hands the pipeline any value with the next sequence number
ReceiveValue(v) ==
    /\ ~crashed
    /\ Len(handled) + Len(wire) < MaxPayloads
    /\ wire' = Append(wire, [seq |-> Len(handled) + Len(wire) + 1, v |-> v])
    /\ UNCHANGED <<users, handled, events, lookups, crashed, session>>
    /\ UNCHANGED cacheVars
    /\ UNCHANGED concVars
    /\ UNCHANGED twinVars

\* the handler that dispatches only the users its cache admitted
HandlerEventsIfAdmitted(evs, sequenceNumber, payload) ==
    IF Rejected(payload.User) THEN evs
    ELSE Append(evs, GuildUnbanEvent(sequenceNumber, payload))

\* what HandleGatewayEvent hands to Dispatch
HandlerEvents(evs, sequenceNumber, payload) ==
    Append(evs, GuildUnbanEvent(sequenceNumber, payload))

\* the handler that dispatches before it puts the user into the cache
DispatchViewBeforePut(u, payload) == u

\* the users cache as the listeners see it during Dispatch: after the Put
DispatchView(u, payload) == HandlerPut(u, payload)

\* a listener looks the user of the event up in the users cache
Lookup(u, id) ==
    IF id \in DOMAIN u THEN [val |-> u[id], ok |-> TRUE]
    ELSE [val |-> NoUser, ok |-> FALSE]

\* the pipeline takes the oldest payload off the wire and calls
\* HandleGatewayEvent(bot, sequenceNumber, v) with it; the type assertion on
\* v panics when v is of another type
HandleGatewayEvent ==
    /\ ~crashed
    /\ wire # <<>>
    /\ LET sequenceNumber == Head(wire).seq
           payload == Head(wire).v
       IN  IF IsBanRemove(payload)
           THEN /\ users' = HandlerPut(users, payload)
                /\ events' = HandlerEvents(events, sequenceNumber, payload)
                /\ lookups' = Append(lookups,
                                     Lookup(DispatchView(users, payload), payload.User.ID))
                /\ handled' = Append(handled, Head(wire))
                /\ UNCHANGED crashed
           ELSE /\ crashed' = TRUE
                /\ UNCHANGED <<users, events, lookups, handled>>
    /\ wire' = Tail(wire)
    /\ UNCHANGED session
    /\ UNCHANGED cacheVars
    /\ UNCHANGED concVars
    /\ UNCHANGED twinVars

----------------------------------------------------------------------------
(* The gateway session and its heartbeat. *)

\* the session identifiers the remote service hands out
SessionIDs == {"s1", "s2"}

\* why a connection ends: the remote allows a resume, or it does not, or it
\* declares the session invalid, or it rejects the credentials
CloseCodes == {"resumable", "nonresumable", "invalid_session", "fatal"}

\* the sequence numbers of the frames of one session: the first is the
\* handshake's answer
FirstSeq == Len(<<"ready">>)
SeqNumbers == FirstSeq..(MaxPayloads + FirstSeq)

\* a step of the session leaves the caches and the pipeline's output alone
SessionFrame ==
    /\ UNCHANGED <<users, handled, events, lookups, crashed>>
    /\ UNCHANGED cacheVars
    /\ UNCHANGED concVars
    /\ UNCHANGED twinVars

\* Connect(resume): opens the transport, one attempt at a time
Connect(resume) ==
    /\ session.state = "Disconnected"
    /\ session.ev # "fatal"
    /\ session' = [session EXCEPT !.state = "Connecting", !.resume = resume, !.ev = "connect"]
    /\ UNCHANGED wire
    /\ SessionFrame

\* the handshake that identifies afresh although a session could be resumed
HandshakeAlwaysIdentify ==
    /\ session.state = "Connecting"
    /\ session' = [session EXCEPT !.state = "Identifying", !.seq = 0, !.id = NoID,
                                  !.shake = [kind |-> "identify", seq |-> 0, id |-> NoID],
                                  !.ev = "handshake"]
    /\ UNCHANGED wire
    /\ SessionFrame

\* the handshake: a resume request when a resume is wanted and a session
\* identifier and a sequence number are cached, a fresh identify otherwise
Handshake ==
    /\ session.state = "Connecting"
    /\ IF session.resume /\ session.id # NoID /\ session.seq # 0
       THEN session' = [session EXCEPT !.state = "Resuming",
                          !.shake = [kind |-> "resume", seq |-> session.seq, id |-> session.id],
                          !.ev = "handshake"]
       ELSE session' = [session EXCEPT !.state = "Identifying", !.seq = 0, !.id = NoID,
                          !.shake = [kind |-> "identify", seq |-> 0, id |-> NoID],
                          !.ev = "handshake"]
    /\ UNCHANGED wire
    /\ SessionFrame

\* the remote answers the identify: it supplies the session identifier, in
\* the first frame of the session
Ready(id) ==
    /\ session.state = "Identifying"
    /\ session' = [session EXCEPT !.state = "Connected", !.id = id, !.seq = FirstSeq,
                                  !.acked = TRUE, !.ev = "ready"]
    /\ UNCHANGED wire
    /\ SessionFrame

\* the remote accepts the resume
Resumed ==
    /\ session.state = "Resuming"
    /\ session' = [session EXCEPT !.state = "Connected", !.acked = TRUE, !.ev = "resumed"]
    /\ UNCHANGED wire
    /\ SessionFrame

\* a frame with opcode dispatch: a new high-water mark is recorded and the
\* payload forwarded downstream; any other sequence number is dropped
OnDispatch(n, payload) ==
    /\ session.state = "Connected"
    /\ Len(handled) + Len(wire) < MaxPayloads
    /\ IF n > session.seq
       THEN /\ session' = [session EXCEPT !.seq = n, !.ev = "dispatch"]
            /\ wire' = Append(wire, [seq |-> n, v |-> payload])
       ELSE /\ session' = [session EXCEPT !.ev = "drop"]
            /\ UNCHANGED wire
    /\ SessionFrame

\* the teardown that keeps the session whatever the code says
TeardownKeepSession(code) ==
    [session EXCEPT !.state = "Reconnecting", !.resume = TRUE,
                    !.lost = [code |-> code, seq |-> session.seq, id |-> session.id],
                    !.ev = "lost"]

\* the transport is torn down with a code: a fatal one ends the client, a
\* resumable one keeps the session for a resume, any other clears the cached
\* sequence number and session identifier
Teardown(code) ==
    CASE code = "fatal" ->
           [session EXCEPT !.state = "Disconnected", !.resume = FALSE,
                           !.lost = [code |-> code, seq |-> session.seq, id |-> session.id],
                           !.ev = "fatal"]
      [] code = "resumable" ->
           [session EXCEPT !.state = "Reconnecting", !.resume = TRUE,
                           !.lost = [code |-> code, seq |-> session.seq, id |-> session.id],
                           !.ev = "lost"]
      [] OTHER ->
           [session EXCEPT !.state = "Reconnecting", !.resume = FALSE,
                           !.seq = 0, !.id = NoID,
                           !.lost = [code |-> code, seq |-> session.seq, id |-> session.id],
                           !.ev = "lost"]

\* the connection ends: the transport drops, the remote closes it, or the
\* remote asks for a reconnect or declares the session invalid
Disconnect(code) ==
    /\ session.state \in {"Identifying", "Resuming", "Connected"}
    /\ session' = Teardown(code)
    /\ UNCHANGED wire
    /\ SessionFrame

\* Reconnecting loops back to Connecting, after the backoff
Reconnect ==
    /\ session.state = "Reconnecting"
    /\ session' = [session EXCEPT !.state = "Connecting", !.ev = "reconnect"]
    /\ UNCHANGED wire
    /\ SessionFrame

\* the heartbeat manager that sends whether or not the last one was answered
HeartbeatDueAlwaysSend ==
    /\ session.state = "Connected"
    /\ session' = [session EXCEPT !.acked = FALSE, !.flood = ~session.acked, !.ev = "beat"]
    /\ UNCHANGED wire
    /\ SessionFrame

\* the heartbeat timer fires: the manager sends a heartbeat when the previous
\* one was acknowledged; otherwise the connection is a zombie, and the
\* session force-closes and reconnects (resumable)
HeartbeatDue ==
    /\ session.state = "Connected"
    /\ IF session.acked
       THEN session' = [session EXCEPT !.acked = FALSE, !.ev = "beat"]
       ELSE session' = [Teardown("resumable") EXCEPT !.lost.code = "zombie", !.ev = "zombie"]
    /\ UNCHANGED wire
    /\ SessionFrame

\* a frame with opcode heartbeat ack
HeartbeatAck ==
    /\ session.state = "Connected"
    /\ ~session.acked
    /\ session' = [session EXCEPT !.acked = TRUE, !.ev = "ack"]
    /\ UNCHANGED wire
    /\ SessionFrame

----------------------------------------------------------------------------
(* The DefaultGroupedCache of package core, method by method, and a caller *)
(* that gives an instance of each package the same calls.                  *)

\* the zero value of CacheFlags, as Put compares it
CacheFlagsNone == {}

\* CacheFlags.Missing: none of the given bits is set
CoreMissing(f, bits) == f \cap bits = {}

\* the two early returns of Put
CoreRejected(e) ==
    \/ neededFlags # CacheFlagsNone /\ CoreMissing(flags, neededFlags)
    \/ ~policy.isNil /\ e \notin policy.accept

CoreGet(s, g, id) ==
    IF ~s.cache.isNil /\ g \in DOMAIN s.cache.m
    THEN IF id \in DOMAIN s.heap[s.cache.m[g]]
         THEN [val |-> s.heap[s.cache.m[g]][id], ok |-> TRUE]
         ELSE [val |-> ZeroT, ok |-> FALSE]
    ELSE [val |-> ZeroT, ok |-> FALSE]

CorePut(s, g, id, e) ==
    IF CoreRejected(e) THEN s
    ELSE LET m == IF s.cache.isNil THEN EmptyMap ELSE s.cache.m
         IN  IF g \in DOMAIN m
             THEN [cache |-> [isNil |-> FALSE, m |-> m],
                   heap  |-> [s.heap EXCEPT ![m[g]] = MapPut(@, id, e)]]
             ELSE LET groupEntities == NewAddr(s.heap)
                  IN  [cache |-> [isNil |-> FALSE, m |-> MapPut(m, g, groupEntities)],
                       heap  |-> MapPut(s.heap, groupEntities, MapPut(EmptyMap, id, e))]

CoreRemove(s, g, id) ==
    IF ~s.cache.isNil /\ g \in DOMAIN s.cache.m
    THEN IF id \in DOMAIN s.heap[s.cache.m[g]]
         THEN [store |-> [s EXCEPT !.heap[s.cache.m[g]] = MapDel(@, id)],
               val |-> s.heap[s.cache.m[g]][id], ok |-> TRUE]
         ELSE [store |-> s, val |-> ZeroT, ok |-> FALSE]
    ELSE [store |-> s, val |-> ZeroT, ok |-> FALSE]

\* RemoveAll that empties the bucket and keeps the group's key
CoreRemoveAllKeepKey(s, g) ==
    IF ~s.cache.isNil /\ g \in DOMAIN s.cache.m
    THEN [s EXCEPT !.heap[s.cache.m[g]] = EmptyMap]
    ELSE s

CoreRemoveAll(s, g) ==
    IF s.cache.isNil THEN s
    ELSE [s EXCEPT !.cache.m = MapDel(@, g)]

\* the entities a range loop over the bucket at address a appends, in the
\* order ids
CoreList(s, a, ids) == [k \in 1..Len(ids) |-> s.heap[a][ids[k]]]

CoreAll(s, ord) ==
    [g \in (IF s.cache.isNil THEN {} ELSE DOMAIN s.cache.m) |->
        CoreList(s, s.cache.m[g], ord[g])]

CoreGroupAll(s, g, ids) ==
    IF ~s.cache.isNil /\ g \in DOMAIN s.cache.m
    THEN [isNil |-> FALSE, val |-> CoreList(s, s.cache.m[g], ids)]
    ELSE [isNil |-> TRUE, val |-> <<>>]

\* the loop "for _, entity := range groupEntities" of FindFirst and
\* GroupFindFirst, from position k of the order ids
RECURSIVE CoreFirstIn(_, _, _, _, _)
CoreFirstIn(s, f, g, ids, k) ==
    IF k > Len(ids) THEN [val |-> ZeroT, ok |-> FALSE]
    ELSE LET entity == s.heap[s.cache.m[g]][ids[k]]
         IN  IF Holds(f, g, entity)
             THEN [val |-> entity, ok |-> TRUE]
             ELSE CoreFirstIn(s, f, g, ids, k + 1)

RECURSIVE CoreFindFirst(_, _, _, _, _)
CoreFindFirst(s, f, gs, k, ord) ==
    IF k > Len(gs) THEN [val |-> ZeroT, ok |-> FALSE]
    ELSE LET r == CoreFirstIn(s, f, gs[k], ord[gs[k]], 1)
         IN  IF r.ok THEN r ELSE CoreFindFirst(s, f, gs, k + 1, ord)

CoreGroupFindFirst(s, g, f, ids) ==
    IF ~s.cache.isNil /\ g \in DOMAIN s.cache.m
    THEN CoreFirstIn(s, f, g, ids, 1)
    ELSE [val |-> ZeroT, ok |-> FALSE]

CoreGroupFindAll(s, g, f, ids) ==
    IF ~s.cache.isNil /\ g \in DOMAIN s.cache.m
    THEN SelectSeq(CoreList(s, s.cache.m[g], ids), LAMBDA entity : Holds(f, g, entity))
    ELSE <<>>

RECURSIVE CoreFindAll(_, _, _, _, _)
CoreFindAll(s, f, gs, k, ord) ==
    IF k > Len(gs) THEN <<>>
    ELSE CoreGroupFindAll(s, gs[k], f, ord[gs[k]]) \o CoreFindAll(s, f, gs, k + 1, ord)

\* NewGroupedCache of package core makes the map; no call has been made yet
InitCore ==
    /\ core = [cache |-> [isNil |-> FALSE, m |-> EmptyMap], heap |-> EmptyMap]
    /\ coreLast = Call("New", 0, 0, ZeroT, ZeroT, FALSE)

\* the order of the ids of the bucket of g a range loop takes (none for an
\* absent group)
BucketOrders(s, g) == IF HasGroup(s, g) THEN Orders(DOMAIN Bucket(s, g)) ELSE {<<>>}

\* the caller has a call left and has made none yet that changes nothing; it
\* keeps its last call for one (ncalls + 1 < MaxCalls in Put, Remove, RemoveAll)
CanCall ==
    /\ ncalls < MaxCalls
    /\ last.op \in {"New", "Put", "Remove", "RemoveAll"}

\* the predicates the caller passes: true for every entity, and true for the
\* entities of one group that are not the zero value
TwinFilters ==
    {[gs |-> Groups, es |-> Entities], [gs |-> {Key.g}, es |-> Entities \ {ZeroT}]}

\* both instances are given the call op(g, id, e, f): the instance of package
\* cache goes to store s1 and returns (v1, ok1), the instance of package core
\* goes to store s2 and returns (v2, ok2); the buckets nothing refers to any
\* more are collected.  The caller makes its Puts, Removes and RemoveAlls and
\* then one call that changes nothing: what the instances return after the
\* same calls is what they return after the calls that change them.
Both(op, g, id, e, f, s1, v1, ok1, s2, v2, ok2) ==
    /\ ncalls' = ncalls + 1
    /\ SetStore(s1, ret)
    /\ core' = Collect(s2, {})
    /\ last' = [Call(op, g, id, e, v1, ok1) EXCEPT !.f = f]
    /\ coreLast' = [Call(op, g, id, e, v2, ok2) EXCEPT !.f = f]
    /\ UNCHANGED <<confVars, gwVars, concVars, ret>>

Both_Get(g, id) ==
    /\ impl = "cache"
    /\ CanCall
    /\ LET r1 == GetResult(Store(cache, heap), g, id)
           r2 == CoreGet(core, g, id)
       IN  Both("Get", g, id, ZeroT, NoFilter,
                Store(cache, heap), r1.val, r1.ok, core, r2.val, r2.ok)

Both_Put(g, id, e) ==
    /\ impl = "cache"
    /\ CanCall
    /\ ncalls + 1 < MaxCalls
    /\ Both("Put", g, id, e, NoFilter,
            DoPut(Store(cache, heap), g, id, e), ZeroT, ~Rejected(e),
            CorePut(core, g, id, e), ZeroT, ~CoreRejected(e))

Both_Remove(g, id) ==
    /\ impl = "cache"
    /\ CanCall
    /\ ncalls + 1 < MaxCalls
    /\ LET r1 == DoRemove(Store(cache, heap), g, id)
           r2 == CoreRemove(core, g, id)
       IN  Both("Remove", g, id, ZeroT, NoFilter, r1.store, r1.val, r1.ok, r2.store, r2.val, r2.ok)

Both_RemoveAll(g) ==
    /\ impl = "cache"
    /\ CanCall
    /\ ncalls + 1 < MaxCalls
    /\ Both("RemoveAll", g, 0, ZeroT, NoFilter,
            DoRemoveAll(Store(cache, heap), g), ZeroT, FALSE,
            CoreRemoveAll(core, g), ZeroT, FALSE)

\* what the caller compares of a returned list: its entities and how often
\* each occurs, whatever their order
UpToOrder(list) ==
    [e \in Entities |-> Cardinality({k \in DOMAIN list : list[k] = e})]

\* All, GroupAll, FindFirst, GroupFindFirst, FindAll and GroupFindAll: r1s is
\* what the method of package cache may return over the orders its range
\* loops may take, r2s the same of package core, the lists up to their order;
\* the loops of the two instances take their orders independently
Both_All ==
    /\ impl = "cache"
    /\ CanCall
    /\ LET r1s == {[g \in DOMAIN AllResult(Store(cache, heap), o) |-> UpToOrder(AllResult(Store(cache, heap), o)[g])] :
                       o \in IDOrders(Store(cache, heap))}
           r2s == {[g \in DOMAIN CoreAll(core, o) |-> UpToOrder(CoreAll(core, o)[g])] : o \in IDOrders(core)}
       IN  \E v1 \in r1s, v2 \in r2s :
              Both("All", 0, 0, ZeroT, NoFilter, Store(cache, heap), v1, TRUE, core, v2, TRUE)

Both_GroupAll(g) ==
    /\ impl = "cache"
    /\ CanCall
    /\ LET r1s == {[r EXCEPT !.val = UpToOrder(@)] : r \in GroupAllResults(Store(cache, heap), g)}
           r2s == {[CoreGroupAll(core, g, ids) EXCEPT !.val = UpToOrder(@)] : ids \in BucketOrders(core, g)}
       IN  \E r1 \in r1s, r2 \in r2s :
              Both("GroupAll", g, 0, ZeroT, NoFilter,
                   Store(cache, heap), r1.val, ~r1.isNil, core, r2.val, ~r2.isNil)

Both_FindFirst(f) ==
    /\ impl = "cache"
    /\ CanCall
    /\ LET r1s == {FindFirstFrom(Store(cache, heap), f, gs, 1, o) :
                       gs \in GroupOrders(Store(cache, heap)), o \in IDOrders(Store(cache, heap))}
           r2s == {CoreFindFirst(core, f, gs, 1, o) : gs \in GroupOrders(core), o \in IDOrders(core)}
       IN  \E r1 \in r1s, r2 \in r2s :
              Both("FindFirst", 0, 0, ZeroT, f,
                   Store(cache, heap), r1.val, r1.ok, core, r2.val, r2.ok)

Both_GroupFindFirst(g, f) ==
    /\ impl = "cache"
    /\ CanCall
    /\ LET r1s == {GroupFindFirstResult(Store(cache, heap), g, f, ids) : ids \in BucketOrders(Store(cache, heap), g)}
           r2s == {CoreGroupFindFirst(core, g, f, ids) : ids \in BucketOrders(core, g)}
       IN  \E r1 \in r1s, r2 \in r2s :
              Both("GroupFindFirst", g, 0, ZeroT, f,
                   Store(cache, heap), r1.val, r1.ok, core, r2.val, r2.ok)

Both_FindAll(f) ==
    /\ impl = "cache"
    /\ CanCall
    /\ LET r1s == {UpToOrder(FindAllFrom(Store(cache, heap), f, gs, 1, o)) :
                       gs \in GroupOrders(Store(cache, heap)), o \in IDOrders(Store(cache, heap))}
           r2s == {UpToOrder(CoreFindAll(core, f, gs, 1, o)) : gs \in GroupOrders(core), o \in IDOrders(core)}
       IN  \E v1 \in r1s, v2 \in r2s :
              Both("FindAll", 0, 0, ZeroT, f, Store(cache, heap), v1, TRUE, core, v2, TRUE)

Both_GroupFindAll(g, f) ==
    /\ impl = "cache"
    /\ CanCall
    /\ LET r1s == {UpToOrder(GroupFindAllResult(Store(cache, heap), g, f, ids)) :
                       ids \in BucketOrders(Store(cache, heap), g)}
           r2s == {UpToOrder(CoreGroupFindAll(core, g, f, ids)) : ids \in BucketOrders(core, g)}
       IN  \E v1 \in r1s, v2 \in r2s :
              Both("GroupFindAll", g, 0, ZeroT, f, Store(cache, heap), v1, TRUE, core, v2, TRUE)

----------------------------------------------------------------------------
(* The specifications. *)

Init == InitCache /\ InitGateway /\ InitCallers /\ InitCore

\* the operations both packages have, called one at a time
Next ==
    \/ \E g \in Groups, id \in IDs : Get(g, id)
    \/ \E g \in Groups, id \in IDs, e \in Entities : Put(g, id, e)
    \/ \E g \in Groups, id \in IDs : Remove(g, id)
    \/ \E g \in Groups : RemoveAll(g)

Spec == Init /\ [][Next]_vars

\* a cache of package cache that admits every entity (RemoveIf reads neither
\* the flags nor the policy), filled and swept
InitSweep ==
    /\ Init
    /\ impl = "cache"
    /\ neededFlags = FlagsNone
    /\ policy.isNil

NextSweep ==
    \/ \E g \in Groups, id \in IDs, e \in Entities : Put(g, id, e)
    \/ \E f \in FilterFuncs : RemoveIf(f)

SpecSweep == InitSweep /\ [][NextSweep]_vars

\* the same cache, with every flag enabled, and every operation that takes
\* entities or groups out of it
InitBucket ==
    /\ InitSweep
    /\ flags = FlagBits

NextBucket ==
    \/ \E g \in Groups, id \in IDs, e \in Entities : Put(g, id, e)
    \/ \E g \in Groups, id \in IDs : Remove(g, id)
    \/ \E g \in Groups : RemoveAll(g)
    \/ \E f \in FilterFuncs : RemoveIf(f)

SpecBucket == InitBucket /\ [][NextBucket]_vars

\* a cache of either package that admits every entity (no accessor reads the
\* flags or the policy), its writers, its accessors, and a caller that keeps
\* what an accessor returned
InitRef ==
    /\ Init
    /\ neededFlags = FlagsNone
    /\ policy.isNil

NextRef ==
    \/ \E g \in Groups, id \in IDs, e \in Entities : Put(g, id, e)
    \/ \E g \in Groups, id \in IDs : Remove(g, id)
    \/ \E g \in Groups : RemoveAll(g)
    \/ All
    \/ \E g \in Groups : GroupAll(g)
    \/ MapAll
    \/ \E g \in Groups : MapGroupAll(g)
    \/ \E f \in FilterFuncs : FindAll(f)
    \/ \E g \in Groups, f \in FilterFuncs : GroupFindAll(g, f)
    \/ CacheRef
    \/ \E g \in Groups : GroupCache(g)
    \/ \E g \in Groups, id \in IDs, e \in Entities : CallerModify(g, id, e)

SpecRef == InitRef /\ [][NextRef]_vars

\* the bot: its users cache with its flags and policy, and the pipeline
InitBot ==
    /\ impl = "users"
    /\ flags \in SUBSET FlagBits
    /\ neededFlags \in {FlagsNone} \cup {{b} : b \in FlagBits}
    /\ policy \in UserPolicies
    /\ cache = [isNil |-> FALSE, m |-> EmptyMap]
    /\ heap = EmptyMap
    /\ last = Call("New", 0, 0, ZeroT, ZeroT, FALSE)
    /\ ret = NoRet
    /\ ncalls = 0
    /\ InitGateway
    /\ InitCallers
    /\ InitCore

\* the pipeline: payloads are handled in arrival order, one at a time
NextGateway ==
    \/ \E payload \in Payloads : Receive(payload)
    \/ HandleGatewayEvent

\* the handler called with any value
NextHandler ==
    \/ \E v \in Values : ReceiveValue(v)
    \/ HandleGatewayEvent

SpecHandler == InitBot /\ [][NextHandler]_vars

SpecGateway == InitBot /\ [][NextGateway]_vars

\* upserts only: Put on a grouped cache, or ban-remove payloads on the bot
InitUpsert == Init \/ InitBot

NextUpsert ==
    \/ /\ impl # "users"
       /\ \E g \in Groups, id \in IDs, e \in Entities : Put(g, id, e)
    \/ /\ impl = "users"
       /\ \E payload \in Payloads : Receive(payload)
    \/ /\ impl = "users"
       /\ HandleGatewayEvent

\* the session connects, loses its connection and reconnects, while the
\* pipeline handles the payloads the session forwards
InitSession ==
    /\ InitBot
    /\ neededFlags = FlagsNone
    /\ policy.isNil

\* the payloads the remote sends in this session: about one user of one guild
SessionPayloads ==
    {payload \in Payloads : payload.GuildID = Key.g /\ payload.User.ID = Key.id}

NextSession ==
    \/ \E resume \in BOOLEAN : Connect(resume)
    \/ Handshake
    \/ \E id \in SessionIDs : Ready(id)
    \/ Resumed
    \/ \E n \in SeqNumbers, payload \in SessionPayloads : OnDispatch(n, payload)
    \/ \E code \in CloseCodes : Disconnect(code)
    \/ Reconnect
    \/ HeartbeatDue
    \/ HeartbeatAck
    \/ HandleGatewayEvent

SpecSession == InitSession /\ [][NextSession]_vars

SpecUpsert == InitUpsert /\ [][NextUpsert]_vars

\* goroutines that call one instance of either package at the same time
InitConc ==
    /\ Init
    /\ flags = FlagBits
    /\ neededFlags = FlagsNone
    /\ ~cache.isNil

NextConc ==
    \/ \E p \in Procs : Get_Call(p, Key.g, Key.id)
    \/ \E p \in Procs, v \in Entities : Put_Call(p, Key.g, Key.id, v)
    \/ \E p \in Procs : Remove_Call(p, Key.g, Key.id)
    \/ \E p \in Procs : RemoveAll_Call(p, Key.g)
    \/ \E p \in Procs : GroupAll_Call(p, Key.g)
    \/ \E p \in Procs : Cache_Call(p)
    \/ \E p \in Procs : GroupCache_Call(p, Key.g)
    \/ \E p \in Procs : RLock(p)
    \/ \E p \in Procs : RLockWake(p)
    \/ \E p \in Procs : RUnlock(p)
    \/ \E p \in Procs : LockW(p)
    \/ \E p \in Procs : LockDrain(p)
    \/ \E p \in Procs : Unlock(p)
    \/ \E p \in Procs : Get_Read1(p)
    \/ \E p \in Procs : Get_Read2(p)
    \/ \E p \in Procs : Put_Write1(p)
    \/ \E p \in Procs : Put_Write2(p)
    \/ \E p \in Procs : Remove_Write(p)
    \/ \E p \in Procs : RemoveAll_Write(p)
    \/ \E p \in Procs : GroupAll_Read(p)
    \/ \E p \in Procs, id \in IDs : GroupAll_Range(p, id)
    \/ \E p \in Procs : Cache_Read(p)
    \/ \E p \in Procs : GroupCache_Read(p)
    \/ \E p \in Procs : GroupCache_RUnlock(p)
    \/ \E p \in Procs : Caller_Read(p)

SpecConc == InitConc /\ [][NextConc]_vars

\* one goroutine reads while the others write
ReaderProc == CHOOSE p \in Procs : \A q \in Procs : p <= q
WriterProcs == Procs \ {ReaderProc}

\* the reader enumerates a group the writers write to
InitEnum ==
    /\ InitConc
    /\ impl = "cache"
    /\ policy.isNil

NextEnum ==
    \/ GroupAll_Call(ReaderProc, Key.g)
    \/ \E p \in WriterProcs, id \in IDs, v \in Entities : Put_Call(p, Key.g, id, v)
    \/ \E p \in WriterProcs, id \in IDs : Remove_Call(p, Key.g, id)
    \/ \E p \in WriterProcs : RemoveAll_Call(p, Key.g)
    \/ \E p \in WriterProcs, f \in ConcFilters : RemoveIf_Call(p, f)
    \/ \E p \in Procs : RLock(p)
    \/ \E p \in Procs : RLockWake(p)
    \/ \E p \in Procs : RUnlock(p)
    \/ \E p \in Procs : LockW(p)
    \/ \E p \in Procs : LockDrain(p)
    \/ \E p \in Procs : Unlock(p)
    \/ \E p \in Procs : Put_Write1(p)
    \/ \E p \in Procs : Put_Write2(p)
    \/ \E p \in Procs : Remove_Write(p)
    \/ \E p \in Procs : RemoveAll_Write(p)
    \/ \E p \in Procs : RemoveIf_Write(p)
    \/ \E p \in Procs, k \in Groups \X IDs : RemoveIf_Sweep(p, k)
    \/ \E p \in Procs : GroupAll_Read(p)
    \/ \E p \in Procs, id \in IDs : GroupAll_Range(p, id)

SpecEnum == InitEnum /\ [][NextEnum]_vars

\* a cache that rejects some entities, its enumerating goroutine, and the
\* other entries of proc: the calls a callback makes, and other goroutines
\* that Put.  A Remove, RemoveAll or RemoveIf a callback calls waits for the
\* lock.
InitCallback ==
    /\ Init
    /\ impl = "cache"
    /\ flags = FlagBits
    /\ neededFlags = FlagsNone
    /\ ~cache.isNil

\* the goroutine that Puts while the other enumerates
PutProc == CHOOSE p \in Procs : \A q \in Procs : q <= p

NextCallback ==
    \/ ForEach_Call(ReaderProc)
    \/ ForEachGroup_Call(ReaderProc, Key.g)
    \/ \E f \in ConcFilters : FindFirst_Call(ReaderProc, f)
    \/ \E f \in ConcFilters : FindAll_Call(ReaderProc, f)
    \/ \E f \in ConcFilters : RemoveIf_Call(ReaderProc, f)
    \/ \E id \in IDs, v \in Entities : Free(PutProc) /\ Put_Call(PutProc, Key.g, id, v)
    \/ \E p \in Procs : RangeLoop(p)
    \/ \E p \in Procs, k \in Groups \X IDs : Callback_Call(p, k)
    \/ \E p \in Procs, q \in WriterProcs, op \in NestedOps, v \in Entities :
          Callback_Nest(p, q, op, IF op = "Put" THEN v ELSE ZeroT,
                        IF op = "RemoveIf" THEN [gs |-> Groups, es |-> Entities] ELSE NoFilter)
    \/ \E p \in Procs : Callback_Return(p)
    \/ \E p \in Procs : Put_Admit(p)
    \/ \E p \in Procs : RLock(p)
    \/ \E p \in Procs : RLockWake(p)
    \/ \E p \in Procs : RUnlock(p)
    \/ \E p \in Procs : LockW(p)
    \/ \E p \in Procs : LockDrain(p)
    \/ \E p \in Procs : Unlock(p)
    \/ \E p \in Procs : Get_Read1(p)
    \/ \E p \in Procs : Get_Read2(p)
    \/ \E p \in Procs : Put_Write1(p)
    \/ \E p \in Procs : Put_Write2(p)

SpecCallback == InitCallback /\ [][NextCallback]_vars


\* an instance of each package, built by NewGroupedCache with the same flags,
\* needed flags and policy, and given the same calls one at a time; no flag
\* is enabled that is not needed
InitTwin ==
    /\ Init
    /\ impl = "cache"
    /\ ~cache.isNil
    /\ flags \subseteq neededFlags

NextTwin ==
    \/ \E g \in Groups, id \in IDs, e \in Entities : Both_Put(g, id, e)
    \/ \E g \in Groups, id \in IDs : Both_Remove(g, id)
    \/ \E g \in Groups : Both_RemoveAll(g)
    \/ \E g \in Groups, id \in IDs : Both_Get(g, id)
    \/ Both_All
    \/ \E g \in Groups : Both_GroupAll(g)
    \/ \E f \in TwinFilters : Both_FindFirst(f)
    \/ \E g \in Groups, f \in TwinFilters : Both_GroupFindFirst(g, f)
    \/ \E f \in TwinFilters : Both_FindAll(f)
    \/ \E g \in Groups, f \in TwinFilters : Both_GroupFindAll(g, f)

SpecTwin == InitTwin /\ [][NextTwin]_vars


\* the reader calls Get while the writers write; the scheduler lets every
\* goroutine that can take a step of its call take it
InitLive ==
    /\ InitConc
    /\ impl = "cache"
    /\ policy.isNil

\* the next step of the call goroutine p is in
Step(p) ==
    \/ RLock(p)
    \/ RLockWake(p)
    \/ RUnlock(p)
    \/ LockW(p)
    \/ LockDrain(p)
    \/ Unlock(p)
    \/ Get_Read1(p)
    \/ Get_Read2(p)
    \/ Put_Write1(p)
    \/ Put_Write2(p)
    \/ Remove_Write(p)
    \/ RemoveAll_Write(p)
    \/ RemoveIf_Write(p)
    \/ \E k \in Groups \X IDs : RemoveIf_Sweep(p, k)

NextLive ==
    \/ Get_Call(ReaderProc, Key.g, Key.id)
    \/ \E p \in WriterProcs, v \in Entities : Put_Call(p, Key.g, Key.id, v)
    \/ \E p \in WriterProcs : Remove_Call(p, Key.g, Key.id)
    \/ \E p \in WriterProcs : RemoveAll_Call(p, Key.g)
    \/ \E p \in WriterProcs, f \in ConcFilters : RemoveIf_Call(p, f)
    \/ \E p \in Procs : Step(p)

SpecLive == InitLive /\ [][NextLive]_vars /\ \A p \in Procs : WF_vars(Step(p))

----------------------------------------------------------------------------
(* The claims.  last' names the call a step made, so a formula            *)
(* [][last'.op = "Put" => ...]_vars speaks of every Put of every behaviour: *)
(* the unprimed variables are the state before the call, the primed ones   *)
(* the state after it.                                                     *)

Before == Store(cache, heap)
After == Store(cache', heap')

\* C1's words for a rejected Put of entity e
FlagsOrPolicyReject(e) ==
    \/ neededFlags # FlagsNone /\ Missing(flags, neededFlags)
    \/ ~policy.isNil /\ e \notin policy.accept

\* C1: a Put whose needed flags are missing, or whose policy returns false for
\* the entity, leaves the whole cache as it was: no bucket is created and the
\* value stored under the same (group, id) stays; a key that was absent is
\* still not found by Get.
C1_RejectedPutIsNoOp ==
    [][(last'.op = "Put" /\ FlagsOrPolicyReject(last'.e))
        => /\ cache' = cache
           /\ heap' = heap
           /\ GetResult(After, last'.g, last'.id) = GetResult(Before, last'.g, last'.id)]_vars

\* a rejected Put has returned and the value stored earlier under its key,
\* another value than the rejected one, is still there
C1_Witness ==
    /\ last.op = "Put"
    /\ FlagsOrPolicyReject(last.e)
    /\ GetResult(Before, last.g, last.id).ok
    /\ GetResult(Before, last.g, last.id).val # last.e

\* C2: a Put whose flags are enabled and whose policy is nil or accepts stores
\* the entity: Get(group, id) then returns (entity, true), whether the bucket
\* or the key existed or the map was nil, and Get of every other pair returns
\* what it returned before.
C2_AdmittedPutStores ==
    [][(last'.op = "Put" /\ ~FlagsOrPolicyReject(last'.e))
        => /\ GetResult(After, last'.g, last'.id) = [val |-> last'.e, ok |-> TRUE]
           /\ \A g \in Groups, id \in IDs :
                 <<g, id>> # <<last'.g, last'.id>>
                    => GetResult(After, g, id) = GetResult(Before, g, id)]_vars

\* an admitted Put has returned, its entity is stored, and the same bucket
\* holds another entity under another id
C2_Witness ==
    /\ last.op = "Put"
    /\ ~FlagsOrPolicyReject(last.e)
    /\ GetResult(Before, last.g, last.id) = [val |-> last.e, ok |-> TRUE]
    /\ \E id \in IDs \ {last.id} : GetResult(Before, last.g, id).ok

\* C8: Remove(group, id) returns (v, true) exactly when v was stored under
\* (group, id), and (zero value, false) otherwise; afterwards Get(group, id)
\* finds nothing and every other pair keeps its value.
C8_RemoveReturnsAndDeletes ==
    [][last'.op = "Remove"
        => /\ last'.ok = (HasGroup(Before, last'.g) /\ last'.id \in DOMAIN Bucket(Before, last'.g))
           /\ last'.ok => last'.val = Bucket(Before, last'.g)[last'.id]
           /\ ~last'.ok => last'.val = ZeroT
           /\ GetResult(After, last'.g, last'.id) = [val |-> ZeroT, ok |-> FALSE]
           /\ \A g \in Groups, id \in IDs :
                 <<g, id>> # <<last'.g, last'.id>>
                    => GetResult(After, g, id) = GetResult(Before, g, id)]_vars

\* a Remove has returned a stored entity and another id of the same group is
\* still stored
C8_Witness ==
    /\ last.op = "Remove"
    /\ last.ok
    /\ last.val # ZeroT
    /\ \E id \in IDs \ {last.id} : GetResult(Before, last.g, id).ok

\* C9: after RemoveAll(group) Get finds no id of the group and GroupAll(group)
\* returns nil; the entities and the buckets of the other groups are as before;
\* RemoveAll of an absent group leaves the cache as it was.
C9_RemoveAllDeletesGroupOnly ==
    [][last'.op = "RemoveAll"
        => /\ \A id \in IDs : ~GetResult(After, last'.g, id).ok
           /\ GroupAllResults(After, last'.g) = {[isNil |-> TRUE, val |-> <<>>]}
           /\ \A g \in Groups \ {last'.g} :
                 /\ HasGroup(After, g) = HasGroup(Before, g)
                 /\ \A id \in IDs : GetResult(After, g, id) = GetResult(Before, g, id)
           /\ ~HasGroup(Before, last'.g) => (cache' = cache /\ heap' = heap)]_vars

\* a RemoveAll has returned, its group is gone and another group still holds
\* an entity
C9_Witness ==
    /\ last.op = "RemoveAll"
    /\ ~HasGroup(Before, last.g)
    /\ \E g \in Groups \ {last.g}, id \in IDs : GetResult(Before, g, id).ok

\* the call that returns in this step takes the last entity out of the stored
\* group g: a Remove of its only id, or a RemoveIf whose filterFunc holds for
\* every entity of the non-empty group
Empties(g) ==
    /\ HasGroup(Before, g)
    /\ DOMAIN Bucket(Before, g) # {}
    /\ \/ last'.op = "Remove" /\ last'.g = g /\ DOMAIN Bucket(Before, g) = {last'.id}
       \/ /\ last'.op = "RemoveIf"
          /\ \A id \in DOMAIN Bucket(Before, g) : Holds(last'.f, g, Bucket(Before, g)[id])

\* C19: after Remove or RemoveIf takes the last entity out of a group, All and
\* MapAll still have the group's key, with an empty collection, and GroupAll of
\* the group returns an empty list that is not nil; after RemoveAll(group) the
\* key is in neither All nor MapAll and GroupAll of the group returns nil; in
\* both cases Get finds no id of the group.
C19_EmptiedBucketStaysUntilRemoveAll ==
    [][/\ \A g \in Groups : Empties(g)
            => /\ g \in DOMAIN MapAllResult(After)
               /\ DOMAIN MapAllResult(After)[g] = {}
               /\ \A ord \in IDOrders(After) :
                     g \in DOMAIN AllResult(After, ord) /\ Len(AllResult(After, ord)[g]) = 0
               /\ GroupAllResults(After, g) = {[isNil |-> FALSE, val |-> <<>>]}
               /\ \A id \in IDs : ~GetResult(After, g, id).ok
       /\ last'.op = "RemoveAll"
            => /\ last'.g \notin DOMAIN MapAllResult(After)
               /\ \A ord \in IDOrders(After) : last'.g \notin DOMAIN AllResult(After, ord)
               /\ GroupAllResults(After, last'.g) = {[isNil |-> TRUE, val |-> <<>>]}
               /\ \A id \in IDs : ~GetResult(After, last'.g, id).ok]_vars

\* a Remove has emptied a bucket and the bucket is still stored, next to a
\* group that still holds an entity
C19_Witness ==
    /\ last.op = "Remove"
    /\ last.ok
    /\ HasGroup(Before, last.g)
    /\ DOMAIN Bucket(Before, last.g) = {}
    /\ \E g \in Groups \ {last.g}, id \in IDs : GetResult(Before, g, id).ok

\* the function called by the method of p is in a call of the instance that
\* has not returned
InNested(p) ==
    /\ proc[p].pc = "callback"
    /\ callee[p] # 0
    /\ proc[callee[p]].pc # "idle"

\* the call the function of p is in takes the write lock: Remove, RemoveAll,
\* RemoveIf, or a Put of an entity the flags and the policy admit
NestedWrites(p) ==
    \/ proc[callee[p]].op \in {"Remove", "RemoveAll", "RemoveIf"}
    \/ proc[callee[p]].op = "Put" /\ ~Rejected(proc[callee[p]].v)

\* in this step the call the function of p is in does not return
StaysNested(p) ==
    /\ callee'[p] = callee[p]
    /\ proc'[p].pc = "callback"
    /\ proc'[callee[p]].pc # "idle"
    /\ proc'[callee[p]].op = proc[callee[p]].op

\* while a ForEach, ForEachGroup, FindFirst or FindAll is in its loop, no
\* step changes what the map holds
NoWriteWhileEnumerating ==
    (\E p \in Procs : proc[p].op \in Enumerations /\ proc[p].pc \in {"iter", "callback"})
        => cache' = cache /\ heap' = heap

\* C20 as stated: a function given to ForEach, ForEachGroup, FindFirst or
\* FindAll that calls an admitted Put, Remove, RemoveAll or RemoveIf of the
\* instance, and a function given to RemoveIf that calls any method of the
\* instance, never returns; and no write takes effect while an enumeration is
\* calling its function.
C20_NestedCallNeverReturns ==
    [][/\ \A p \in Procs :
            (/\ InNested(p)
             /\ \/ proc[p].op \in Enumerations /\ NestedWrites(p)
                \/ proc[p].op = "RemoveIf")
            => StaysNested(p)
       /\ NoWriteWhileEnumerating]_vars

\* C20, amended: a function given to ForEach, ForEachGroup, FindFirst or
\* FindAll that calls an admitted Put, Remove, RemoveAll or RemoveIf of the
\* instance, and a function given to RemoveIf that calls any method of the
\* instance other than a Put of an entity the flags or the policy reject,
\* never returns; and no write takes effect while a ForEach, ForEachGroup,
\* FindFirst or FindAll is calling its function.
C20_LockingNestedCallNeverReturns ==
    [][/\ \A p \in Procs :
            (/\ InNested(p)
             /\ \/ proc[p].op \in Enumerations /\ NestedWrites(p)
                \/ /\ proc[p].op = "RemoveIf"
                   /\ proc[callee[p]].op = "Put" => ~Rejected(proc[callee[p]].v))
            => StaysNested(p)
       /\ NoWriteWhileEnumerating]_vars

\* the function of a ForEach has called Put, which holds the writer's mutex
\* and waits for the read lock of the ForEach to be released
C20_Witness ==
    \E p \in Procs :
        /\ proc[p].op = "ForEach"
        /\ InNested(p)
        /\ proc[callee[p]].op = "Put"
        /\ proc[callee[p]].pc = "drain"
        /\ mu.w = callee[p]
        /\ p \in mu.readers

\* the entities stored in s, in the group of the call (in any group for
\* FindFirst), that the predicate of the call c is true for
Matching(s, c) ==
    {Bucket(s, k[1])[k[2]] :
        k \in {x \in Stored(s) : /\ c.op = "GroupFindFirst" => x[1] = c.g
                                  /\ Holds(c.f, x[1], Bucket(s, x[1])[x[2]])}}

\* C21 as stated: given the same calls, the instance of package cache and the
\* instance of package core return the same for every call (lists up to the
\* order of their elements).
C21_SameResults ==
    /\ last.op = coreLast.op
    /\ last.ok = coreLast.ok
    /\ last.val = coreLast.val

\* C21, amended: given the same calls, the two instances return the same for
\* every Get, Remove, All, GroupAll, FindAll and GroupFindAll (lists up to the
\* order of their elements); FindFirst and GroupFindFirst find an entity in
\* both or in neither, and each returns one of the stored entities the
\* predicate is true for, the same one when there is only one.
C21_SameResultsOrAnyMatch ==
    /\ last.op = coreLast.op
    /\ last.ok = coreLast.ok
    /\ IF last.op \in {"FindFirst", "GroupFindFirst"} /\ last.ok
       THEN /\ Matching(Store(cache, heap), last) = Matching(core, coreLast)
            /\ last.val \in Matching(core, coreLast)
            /\ coreLast.val \in Matching(Store(cache, heap), last)
       ELSE last.val = coreLast.val

\* after the same Puts, FindFirst returned an entity from each instance, and
\* not the same one
C21_Witness ==
    /\ last.op = "FindFirst"
    /\ coreLast.op = "FindFirst"
    /\ last.ok
    /\ coreLast.ok
    /\ last.val # coreLast.val
    /\ \A k \in Groups \X IDs : GetResult(Store(cache, heap), k[1], k[2]) = CoreGet(core, k[1], k[2])

\* C6: a Put with the group, id and entity of the Put just before it leaves
\* the cache as that Put left it (same value, same presence, same buckets);
\* and handling a ban-remove payload equal to the one handled just before it
\* leaves the users cache as it was.
C6_UpsertIdempotent ==
    [][/\ (/\ last.op = "Put" /\ last'.op = "Put"
            /\ last'.g = last.g /\ last'.id = last.id /\ last'.e = last.e)
          => (cache' = cache /\ heap' = heap)
       /\ (/\ handled # <<>>
            /\ Len(handled') = Len(handled) + 1
            /\ handled'[Len(handled')].v = handled[Len(handled)].v)
          => users' = users]_vars

\* the same admitted user was handled twice in a row and is cached
C6_Witness ==
    /\ Len(handled) = 2
    /\ handled[1].v = handled[2].v
    /\ ~FlagsOrPolicyReject(handled[2].v.User)
    /\ handled[2].v.User.ID \in DOMAIN users

\* the payloads handled so far that put a user under id: their positions
PutsOf(id) ==
    {k \in 1..Len(handled) :
        handled[k].v.User.ID = id /\ ~FlagsOrPolicyReject(handled[k].v.User)}

Latest(S) == CHOOSE k \in S : \A j \in S : j <= k

\* C7: payloads are handled in wire order, one at a time, with increasing
\* sequence numbers, and after payload n the users cache holds, under each
\* id, the user of the latest of the payloads 1..n that put one there, and
\* nothing of the payloads still on the wire.
C7_CacheReflectsHandledPrefix ==
    /\ \A k \in 1..Len(handled) : handled[k].seq = k
    /\ \A k \in 1..Len(wire) : wire[k].seq = Len(handled) + k
    /\ Len(events) = Len(handled)
    /\ DOMAIN users = {id \in IDs : PutsOf(id) # {}}
    /\ \A id \in DOMAIN users : users[id] = handled[Latest(PutsOf(id))].v.User

\* two payloads put different users under one id; the later one is cached
C7_Witness ==
    /\ Len(handled) = 2
    /\ handled[1].v.User.ID = handled[2].v.User.ID
    /\ handled[1].v.User # handled[2].v.User
    /\ PutsOf(handled[2].v.User.ID) = {1, 2}
    /\ users[handled[2].v.User.ID] = handled[2].v.User

\* C10: RemoveIf(filterFunc) removes every stored entity filterFunc(group,
\* entity) holds for, in every group, keeps every other stored entity with its
\* value, stores nothing new, and calls filterFunc once for each stored entity.
C10_RemoveIfSweepsAllGroups ==
    [][last'.op = "RemoveIf"
        => \A g \in Groups, id \in IDs :
             LET pre == GetResult(Before, g, id)
                 post == GetResult(After, g, id)
             IN  /\ (pre.ok /\ Holds(last'.f, g, pre.val)) => ~post.ok
                 /\ (pre.ok /\ ~Holds(last'.f, g, pre.val)) => post = pre
                 /\ ~pre.ok => ~post.ok
                 /\ last'.calls[<<g, id>>] = IF pre.ok THEN 1 ELSE 0]_vars

\* a RemoveIf has called its filter on entities of two groups, removed one
\* of them and kept the other
C10_Witness ==
    /\ last.op = "RemoveIf"
    /\ \E g1, g2 \in Groups, i1, i2 \in IDs :
          /\ g1 # g2
          /\ last.calls[<<g1, i1>>] = 1
          /\ last.calls[<<g2, i2>>] = 1
          /\ ~GetResult(Before, g1, i1).ok
          /\ GetResult(Before, g2, i2).ok

Writers == {"Put", "Remove", "RemoveAll"}

\* C5: what an accessor returned is not a reference into the cache: a Put,
\* Remove or RemoveAll after the accessor returned does not change what the
\* caller reads in the collection it holds, and a change the caller makes to
\* that collection does not change what Get returns.
C5_NoReferenceIntoStorage ==
    [][/\ last'.op \in Writers => RetView' = RetView
       /\ last'.op = "CallerModify"
            => \A g \in Groups, id \in IDs :
                  GetResult(After, g, id) = GetResult(Before, g, id)]_vars

\* C5 for the accessors that copy (all but Cache and GroupCache of package
\* core): the same statement, which holds
C5_CopyingAccessors ==
    [][ret.kind \notin {"outer", "inner"}
        => /\ last'.op \in Writers => RetView' = RetView
           /\ last'.op = "CallerModify"
                => \A g \in Groups, id \in IDs :
                      GetResult(After, g, id) = GetResult(Before, g, id)]_vars

\* a Get that has read its result and is about to return
GetDone(p) == proc[p].op = "Get" /\ proc[p].pc = "runlock"

\* C3 as the specification has it: a Get that races with a Put(group, id,
\* new) returns the value (or absence) stored before that Put, or new.
C3_GetReturnsPreOrNewOfRacingPut ==
    \A p \in Procs :
        GetDone(p) => \A x \in proc[p].raced : proc[p].res \in {x.pre, x.new}

\* C3: under any interleaving of Put, Get, Remove and RemoveAll, a Get
\* returns the value (or absence) that was stored under its key at some
\* instant between its call and its return: what was stored before a racing
\* Put, the value of that Put, or what another write that races with the
\* Get left there; never a mixture and never a partially written entity.
C3_GetReturnsAStoredValue ==
    \A p \in Procs : GetDone(p) => proc[p].res \in proc[p].obs

\* a Get has raced with a Put that replaced one entity by another, and
\* returns the new one
C3_Witness ==
    \E p \in Procs :
        /\ GetDone(p)
        /\ \E x \in proc[p].raced :
              /\ x.pre.ok
              /\ x.pre.val # x.new.val
              /\ proc[p].res = x.new

\* the goroutine is reading or modifying the internal map as a writer
Writing(p) == proc[p].pc \in {"write", "write2", "sweep"}

\* the goroutine is reading the internal map under the read lock
ReadingLocked(p) == proc[p].pc \in {"read", "read2", "range"}

\* the goroutine is reading the internal map
Reading(p) == proc[p].pc \in {"read", "read2", "range", "cacheread", "useref"}

\* C4: whenever a writer is reading or modifying the internal map, no other
\* writer and no reader is accessing the internal map.
C4_WriterExcludesEveryAccess ==
    \A p, q \in Procs :
        (p # q /\ Writing(p)) => ~Writing(q) /\ ~Reading(q)

\* C4 for the methods that take c.mu (all but Cache of package core, and
\* the callers that read what Cache and GroupCache returned): the same
\* statement, which holds
C4_WriterExcludesLockedMethods ==
    \A p, q \in Procs :
        (p # q /\ Writing(p)) => ~Writing(q) /\ ~ReadingLocked(q)

\* a GroupAll that has built its list and is about to return
GroupAllDone(p) == proc[p].op = "GroupAll" /\ proc[p].pc = "runlock"

\* what that GroupAll returns: nil, or the entities it appended, by id
GroupAllReturn(p) == [isNil |-> ~proc[p].res.ok, val |-> proc[p].acc]

GetPending(p) == proc[p].op = "Get" /\ proc[p].pc # "idle"

\* C12: under fair scheduling every Get that starts while Put, Remove,
\* RemoveAll or RemoveIf calls are in progress or waiting returns, and it
\* waits only while a writer holds or awaits the lock: the Unlock that ends
\* the write critical section ahead of it lets it in.
C12_GetReturns ==
    /\ \A p \in Procs : GetPending(p) ~> ~GetPending(p)
    /\ [](\A p \in Procs :
            (GetPending(p) /\ proc[p].pc = "rwait") => (mu.w # 0 \/ p \in mu.readers))

\* a Get that waited for a write critical section has been let in by the
\* writer's Unlock
C12_Witness ==
    \E p \in Procs :
        /\ GetPending(p)
        /\ proc[p].pc = "rwait"
        /\ p \in mu.readers
        /\ mu.w = 0

\* the session is between the loss of a connection and the answer to the
\* handshake of the reconnect
Reconnecting(codes) ==
    /\ session.lost.code \in codes
    /\ session.state \in {"Reconnecting", "Connecting", "Identifying", "Resuming"}

\* C13: after a disconnect with a resumable close code the reconnect keeps
\* the last sequence number and the session identifier (and resumes with
\* them) and does not clear the cache; after a disconnect with a
\* non-resumable or invalid-session code the reconnect clears the session
\* identifier and the sequence number and performs a fresh identify.
C13_ResumeOrReset ==
    /\ [](Reconnecting({"resumable"})
            => /\ session.seq = session.lost.seq
               /\ session.id = session.lost.id
               /\ session.lost.id # NoID => session.state # "Identifying"
               /\ session.state = "Resuming"
                    => session.shake = [kind |-> "resume", seq |-> session.lost.seq,
                                        id |-> session.lost.id])
    /\ [](Reconnecting({"nonresumable", "invalid_session"})
            => /\ session.seq = 0
               /\ session.id = NoID
               /\ session.state # "Resuming"
               /\ session.state = "Identifying" => session.shake.kind = "identify")
    /\ [][session'.ev \in {"lost", "reconnect", "handshake", "resumed", "ready"}
            /\ session' # session => users' = users]_vars

\* a session that had received payloads and filled the cache has resumed
\* after a resumable disconnect, with the sequence number it had
C13_Witness ==
    /\ session.ev = "resumed"
    /\ session.lost.code = "resumable"
    /\ session.seq = session.lost.seq
    /\ session.seq > FirstSeq
    /\ users # EmptyMap

\* C14: while Connected, when a heartbeat is due and the previous one has
\* not been acknowledged, the session goes to Reconnecting (force-close,
\* resumable reconnect) and sends no heartbeat; no heartbeat is ever sent
\* while the previous one is unacknowledged.
C14_ZombieForcesReconnect ==
    /\ [][(/\ session.state = "Connected"
           /\ ~session.acked
           /\ session'.ev \in {"beat", "zombie"}
           /\ session' # session)
            => /\ session'.state = "Reconnecting"
               /\ session'.resume
               /\ session'.seq = session.seq
               /\ session'.id = session.id
               /\ session'.acked = session.acked]_vars
    /\ [](~session.flood)

\* a heartbeat fell due while the previous one was unacknowledged, and the
\* session of an established connection is reconnecting
C14_Witness ==
    /\ session.ev = "zombie"
    /\ session.state = "Reconnecting"
    /\ session.lost.id # NoID
    /\ ~session.acked

\* a step of HandleGatewayEvent on a ban-remove payload
Handles == Len(handled') = Len(handled) + 1

\* C15: for each ban-remove payload handled, HandleGatewayEvent first puts
\* the payload's user into the users cache under the user's id and then
\* dispatches exactly one GuildUnbanEvent with the payload's GuildID and
\* User and the sequence number passed to the handler; when the user is
\* admitted, a listener that looks the user up during dispatch finds the
\* payload's user.
C15_PutThenDispatch ==
    [][Handles =>
        LET sequenceNumber == Head(wire).seq
            payload == Head(wire).v
        IN  /\ events' = Append(events, [seq |-> sequenceNumber,
                                         GuildID |-> payload.GuildID,
                                         User |-> payload.User])
            /\ Len(lookups') = Len(events')
            /\ ~FlagsOrPolicyReject(payload.User)
                 => /\ lookups'[Len(lookups')] = [val |-> payload.User, ok |-> TRUE]
                    /\ users'[payload.User.ID] = payload.User]_vars

\* the listener of the second event found the user of the second payload,
\* which replaced the user the first payload had put under the same id
C15_Witness ==
    /\ Len(events) = 2
    /\ Len(lookups) = 2
    /\ lookups[1].ok
    /\ lookups[2].ok
    /\ lookups[1].val.ID = lookups[2].val.ID
    /\ lookups[1].val # lookups[2].val
    /\ lookups[2].val = events[2].User

\* C16: for every value v passed to HandleGatewayEvent, including a v that
\* is not a *GuildBanRemoveGatewayEvent, the handler does not panic: the
\* payload is dropped with the cache unchanged and no event dispatched.
C16_ForeignValueIsDropped ==
    [][(wire # <<>> /\ wire' = Tail(wire) /\ ~IsBanRemove(Head(wire).v))
        => /\ ~crashed'
           /\ users' = users
           /\ events' = events]_vars

\* C17: the handler dispatches its GuildUnbanEvent once per handled payload
\* whether or not the users cache admitted the user: when the flags or the
\* policy reject the Put, the cache is unchanged and the event is still
\* dispatched with the payload's User and GuildID.
C17_DispatchWithoutAdmission ==
    [][(Handles /\ FlagsOrPolicyReject(Head(wire).v.User))
        => /\ users' = users
           /\ Len(events') = Len(events) + 1
           /\ events'[Len(events')].User = Head(wire).v.User
           /\ events'[Len(events')].GuildID = Head(wire).v.GuildID]_vars

\* a payload whose user the cache rejected has been handled: the cache is
\* empty, the event is out
C17_Witness ==
    /\ Len(handled) = 1
    /\ FlagsOrPolicyReject(handled[1].v.User)
    /\ users = EmptyMap
    /\ Len(events) = 1
    /\ events[1].User = handled[1].v.User

\* C18: a cache constructed with neededFlags equal to FlagsNone skips the
\* flag check: whatever flags are enabled, none included, a Put whose policy
\* is nil or accepts the entity is admitted and stores it.
C18_FlagsNoneSkipsFlagCheck ==
    [][(/\ last'.op = "Put"
        /\ neededFlags = FlagsNone
        /\ (policy.isNil \/ last'.e \in policy.accept))
        => /\ last'.ok
           /\ GetResult(After, last'.g, last'.id) = [val |-> last'.e, ok |-> TRUE]]_vars

\* a cache with no flag enabled and no flag needed has stored an entity its
\* policy accepts
C18_Witness ==
    /\ last.op = "Put"
    /\ neededFlags = FlagsNone
    /\ flags = {}
    /\ ~policy.isNil
    /\ last.e \in policy.accept
    /\ GetResult(Before, last.g, last.id) = [val |-> last.e, ok |-> TRUE]

====
